---- MODULE Spec2Model ----
(***************************************************************************)
(* Chunked PDF extraction pipeline of the extraction job                   *)
(* (src/extraction-job/pdf_extraction.py): the deep merge of per-chunk     *)
(* results into the accumulated extraction, the per-model retry loop, the  *)
(* model fallback chain and the per-document chunk loop; the splitter of   *)
(* the PDF into chunks; the entry points that run a document, their        *)
(* triggers and the bucket batch (main.py, job.py); the upsert of the      *)
(* document's record (database.py); the text chunker of the embeddings     *)
(* (embeddings.py); the message and session requests of the council API    *)
(* (src/api).                                                              *)
(***************************************************************************)
EXTENDS Integers, Sequences, FiniteSets, TLC

(***************************************************************************)
(* Bounds of the model.                                                    *)
(***************************************************************************)
\* largest scalar value a field can hold (scalars are 1..MaxScalar)
MaxScalar == 2
\* longest list a field can hold
MaxLen == 2
\* largest number of chunks a document is split into
MaxChunks == 3
\* largest number of insert_extraction calls that run against one table
MaxCalls == 3
\* the pages of a document and the pages per chunk given to the splitter
MaxPages == 25
MaxChunkSize == 10
\* the objects a bucket holds
MaxBlobs == 4
\* the characters of the longest text given to _chunk_text, and the largest
\* chunk_size
MaxTextLen == 7
MaxWindow == 6
\* the agents that answer one message of the user
MaxAgents == 2

(***************************************************************************)
(* Values of the extraction dict (JSON-like): None, a scalar, a list, or   *)
(* a dict whose mapping dv has the present keys as its DOMAIN.             *)
(***************************************************************************)
Null == [k |-> "null"]
Scalar(v) == [k |-> "scalar", sv |-> v]
List(s) == [k |-> "list", lv |-> s]
Dict(d) == [k |-> "dict", dv |-> d]

\* the empty dict {}
EmptyDict == [key \in {} |-> Null]

\* dict.get(key): the value, or None when the key is missing
Get(d, key) == IF key \in DOMAIN d THEN d[key] ELSE Null

(***************************************************************************)
(* The schema: ExtractionResult with one field of each shape (a nested     *)
(* model, a list, a scalar); DefendantInfo with scalar sub-fields.  Every  *)
(* field is optional and defaults to None.                                 *)
(***************************************************************************)
Fields == {"defendant", "legal_counsels", "extraction_confidence"}
DefendantFields == {"name", "alias"}

ScalarValues == {Scalar(v) : v \in 1..MaxScalar}
\* list items are opaque to the merge: two distinct items
Items == {"a", "b"}
ListValues == {List(s) : s \in UNION {[1..n -> Items] : n \in 0..MaxLen}}

\* a DefendantInfo instance: the sub-fields given to the constructor
\* (model_fields_set) and the value of every sub-field (None when not given)
DefendantInfos ==
  UNION {{[k |-> "model", fields_set |-> fs, data |-> d] :
            d \in {dd \in [DefendantFields -> ScalarValues \cup {Null}] :
                     \A s \in DefendantFields : s \notin fs => dd[s] = Null}} :
         fs \in SUBSET DefendantFields}

\* the values the validated ExtractionResult can hold in a field it was given
FieldValues(f) ==
  IF f = "defendant" THEN DefendantInfos \cup {Null}
  ELSE IF f = "legal_counsels" THEN ListValues \cup {Null}
  ELSE ScalarValues \cup {Null}

\* every ExtractionResult(**parsed_json): model_fields_set is the set of keys
\* of the parsed JSON, a field that was not given holds its default None
ExtractionResults ==
  UNION {{[fields_set |-> fs, data |-> d] :
            d \in {dd \in [Fields -> UNION {FieldValues(f) : f \in Fields}] :
                     \A f \in Fields : /\ dd[f] \in FieldValues(f)
                                       /\ f \notin fs => dd[f] = Null}} :
         fs \in SUBSET Fields}

\* BaseModel.model_dump(): a nested model becomes a dict with every one of
\* its fields as a key (None for the ones not given); fields_set is dropped
RECURSIVE dump_value(_)
dump_value(val) ==
  IF val.k = "model"
    THEN Dict([s \in DOMAIN val.data |-> dump_value(val.data[s])])
    ELSE val

model_dump(new_result) ==
  [f \in DOMAIN new_result.data |-> dump_value(new_result.data[f])]

(***************************************************************************)
(* Merge utilities.                                                        *)
(***************************************************************************)
RECURSIVE _merge_nested_value(_, _)

\* variant: the scalar branch takes the new value even when it is None
_merge_nested_value_null_overwrites(curr_val, new_val) ==
  IF new_val.k = "dict" /\ curr_val.k = "dict"
    THEN LET added == {key \in DOMAIN new_val.dv :
                         key \notin DOMAIN curr_val.dv /\ new_val.dv[key] # Null}
         IN Dict([key \in DOMAIN curr_val.dv \cup added |->
                    IF key \notin DOMAIN new_val.dv THEN curr_val.dv[key]
                    ELSE IF key \in DOMAIN curr_val.dv
                      THEN _merge_nested_value(curr_val.dv[key], new_val.dv[key])
                      ELSE new_val.dv[key]])
  ELSE IF new_val.k = "list"
    THEN IF new_val.lv # <<>> THEN new_val
         ELSE IF curr_val.k = "list" /\ curr_val.lv # <<>> THEN curr_val
         ELSE new_val
  ELSE new_val

\* variant: a non-empty new list is appended to the old list
_merge_nested_value_extends_list(curr_val, new_val) ==
  IF new_val.k = "dict" /\ curr_val.k = "dict"
    THEN LET added == {key \in DOMAIN new_val.dv :
                         key \notin DOMAIN curr_val.dv /\ new_val.dv[key] # Null}
         IN Dict([key \in DOMAIN curr_val.dv \cup added |->
                    IF key \notin DOMAIN new_val.dv THEN curr_val.dv[key]
                    ELSE IF key \in DOMAIN curr_val.dv
                      THEN _merge_nested_value(curr_val.dv[key], new_val.dv[key])
                      ELSE new_val.dv[key]])
  ELSE IF new_val.k = "list"
    THEN IF new_val.lv # <<>>
           THEN (IF curr_val.k = "list" THEN List(curr_val.lv \o new_val.lv)
                 ELSE new_val)
         ELSE IF curr_val.k = "list" /\ curr_val.lv # <<>> THEN curr_val
         ELSE new_val
  ELSE IF new_val # Null THEN new_val
  ELSE curr_val

\* variant: an empty new list clears the old list
_merge_nested_value_empty_list_clears(curr_val, new_val) ==
  IF new_val.k = "dict" /\ curr_val.k = "dict"
    THEN LET added == {key \in DOMAIN new_val.dv :
                         key \notin DOMAIN curr_val.dv /\ new_val.dv[key] # Null}
         IN Dict([key \in DOMAIN curr_val.dv \cup added |->
                    IF key \notin DOMAIN new_val.dv THEN curr_val.dv[key]
                    ELSE IF key \in DOMAIN curr_val.dv
                      THEN _merge_nested_value(curr_val.dv[key], new_val.dv[key])
                      ELSE new_val.dv[key]])
  ELSE IF new_val.k = "list" THEN new_val
  ELSE IF new_val # Null THEN new_val
  ELSE curr_val

\* variant: a scalar that is already known is never replaced (first write wins)
_merge_nested_value_first_write_wins(curr_val, new_val) ==
  IF new_val.k = "dict" /\ curr_val.k = "dict"
    THEN LET added == {key \in DOMAIN new_val.dv :
                         key \notin DOMAIN curr_val.dv /\ new_val.dv[key] # Null}
         IN Dict([key \in DOMAIN curr_val.dv \cup added |->
                    IF key \notin DOMAIN new_val.dv THEN curr_val.dv[key]
                    ELSE IF key \in DOMAIN curr_val.dv
                      THEN _merge_nested_value(curr_val.dv[key], new_val.dv[key])
                      ELSE new_val.dv[key]])
  ELSE IF new_val.k = "list"
    THEN IF new_val.lv # <<>> THEN new_val
         ELSE IF curr_val.k = "list" /\ curr_val.lv # <<>> THEN curr_val
         ELSE new_val
  ELSE IF new_val # Null /\ curr_val.k # "scalar" THEN new_val
  ELSE curr_val

\* variant: a new nested object replaces the old one (naive overwrite)
_merge_nested_value_replaces_dict(curr_val, new_val) ==
  IF new_val.k = "dict" /\ curr_val.k = "dict" THEN new_val
  ELSE IF new_val.k = "list"
    THEN IF new_val.lv # <<>> THEN new_val
         ELSE IF curr_val.k = "list" /\ curr_val.lv # <<>> THEN curr_val
         ELSE new_val
  ELSE IF new_val # Null THEN new_val
  ELSE curr_val

_merge_nested_value(curr_val, new_val) ==
  IF new_val.k = "dict" /\ curr_val.k = "dict"
    THEN LET added == {key \in DOMAIN new_val.dv :
                         key \notin DOMAIN curr_val.dv /\ new_val.dv[key] # Null}
         IN Dict([key \in DOMAIN curr_val.dv \cup added |->
                    IF key \notin DOMAIN new_val.dv THEN curr_val.dv[key]
                    ELSE IF key \in DOMAIN curr_val.dv
                      THEN _merge_nested_value(curr_val.dv[key], new_val.dv[key])
                      ELSE new_val.dv[key]])
  ELSE IF new_val.k = "list"
    THEN IF new_val.lv # <<>> THEN new_val
         ELSE IF curr_val.k = "list" /\ curr_val.lv # <<>> THEN curr_val
         ELSE new_val
  ELSE IF new_val # Null THEN new_val
  ELSE curr_val

\* variant: the dumped result is written over the accumulator (dict.update)
_deep_merge_extraction_update(current, new_result) ==
  LET new_data == model_dump(new_result)
  IN [f \in DOMAIN current \cup DOMAIN new_data |->
        IF f \in DOMAIN new_data THEN new_data[f] ELSE current[f]]

\* variant: a field without a value adopts the new value even when it is None
_deep_merge_extraction_adopts_null(current, new_result) ==
  LET fields_set == new_result.fields_set
      new_data == model_dump(new_result)
      added == {f \in fields_set : Get(current, f) = Null}
  IN [f \in DOMAIN current \cup added |->
        IF f \notin fields_set THEN current[f]
        ELSE IF Get(current, f) = Null
          THEN Get(new_data, f)
          ELSE _merge_nested_value(current[f], Get(new_data, f))]

\* variant: a field explicitly set to None takes the None (the stale value
\* is overwritten)
_deep_merge_extraction_none_overwrites(current, new_result) ==
  LET fields_set == new_result.fields_set
      new_data == model_dump(new_result)
      kept == {f \in DOMAIN current :
                 f \in fields_set => Get(new_data, f) # Null}
      added == {f \in fields_set :
                  Get(current, f) = Null /\ Get(new_data, f) # Null}
  IN [f \in kept \cup added |->
        IF f \notin fields_set THEN current[f]
        ELSE IF Get(current, f) = Null THEN new_data[f]
        ELSE _merge_nested_value(current[f], Get(new_data, f))]

_deep_merge_extraction(current, new_result) ==
  LET fields_set == new_result.fields_set
      new_data == model_dump(new_result)
      added == {f \in fields_set :
                  Get(current, f) = Null /\ Get(new_data, f) # Null}
  IN [f \in DOMAIN current \cup added |->
        IF f \notin fields_set THEN current[f]
        ELSE IF Get(current, f) = Null
          THEN (IF Get(new_data, f) # Null THEN new_data[f] ELSE current[f])
          ELSE _merge_nested_value(current[f], Get(new_data, f))]

\* the accumulators a run can hold: the merges of one result into {}
\* (MergeClosed checks that merging never leaves this set)
Accumulators ==
  {_deep_merge_extraction(EmptyDict, r) : r \in ExtractionResults}

(***************************************************************************)
(* Errors and LLM replies.                                                 *)
(***************************************************************************)
NoError == [type |-> "none"]
\* TruncationError raised by the call to the model at index i of the chain
TruncationError(model_i) == [type |-> "TruncationError", model |-> model_i]
ValueError(msg) == [type |-> "ValueError", msg |-> msg]
\* any other exception, named by the call that raised it
Exception(msg) == [type |-> "Exception", msg |-> msg]
IOError(msg) == [type |-> "IOError", msg |-> msg]
\* asyncio.CancelledError, raised at the await the task was suspended in
CancelledError(await) == [type |-> "CancelledError", await |-> await]
\* raise e from cause: the exception carries the one it was raised from
raise_from(e, cause) == [type |-> e.type, msg |-> e.msg, cause |-> cause]

\* max_attempts of _try_pdf_model_with_retries
max_attempts == 3

\* the model names a setting can hold ("" is an unset, falsy entry)
ModelNames == {"", "gemini-2.5-flash-lite", "gemini-2.5-flash", "gemini-2.5-pro"}

\* the settings of a run: every pattern of unset and repeated entries among
\* the primary, the first fallback and the second fallback
SettingsChoices ==
  {s \in [extraction_model : ModelNames,
          extraction_fallback_model : ModelNames,
          extraction_fallback_model_2 : ModelNames] :
     /\ s.extraction_model \in {"", "gemini-2.5-flash-lite"}
     /\ s.extraction_fallback_model \in
          {"", "gemini-2.5-flash-lite", "gemini-2.5-flash"}}

\* the results a model returns in a document run: the chunk reports the
\* confidence (or nothing), the one field whose merge is order dependent
LLMResults ==
  {r \in ExtractionResults :
     /\ r.fields_set \subseteq {"extraction_confidence"}
     /\ r.data["extraction_confidence"] \in {Null, Scalar(1), Scalar(2)}}

\* what acompletion gives back: it raises, or it returns a message content
\* (text that does not parse, JSON that ExtractionResult rejects, or JSON
\* that validates) with a finish_reason
NotJson == [json |-> FALSE, valid |-> FALSE]
Invalid == [json |-> TRUE, valid |-> FALSE]
Json(r) == [json |-> TRUE, valid |-> TRUE, parsed |-> r]
Raised == [raised |-> TRUE]
Replies ==
  {Raised} \cup
  {[raised |-> FALSE, finish_reason |-> fr, content |-> c] :
     fr \in {"stop", "length"},
     c \in {NotJson, Invalid} \cup {Json(r) : r \in LLMResults}}

\* no call has been made yet
NoCall == [chunk |-> 0]
\* no call of this model has ended yet
NoCalls == [n |-> 0, last |-> "-", slept |-> <<>>]

VARIABLES
  settings,            \* get_settings()
  pc,                  \* where the run is
  total_chunks,        \* len(chunks)
  chunk_number,        \* the chunk the loop is at (1-indexed)
  current_extraction,  \* the accumulator
  successful_chunks,
  error,               \* the exception that left the run, if any
  messages,            \* the prompt of the current chunk
  model_chain,
  i,                   \* index into model_chain (0-based)
  attempt,             \* attempt of _try_pdf_model_with_retries (0-based)
  last_error,
  result,              \* the last ExtractionResult merged
  prev_extraction,     \* the accumulator before the last merge
  merged,              \* the results merged so far, in order, each with
                       \* the chunk it came from
  chunk_status,        \* per chunk: pending, processing, ok, failed
  chunk_error,         \* what the last extract_from_pdf_chunk that ended raised
  calls,               \* per model of the chain, for the current chunk: the
                       \* number of calls that ended and how the last one
                       \* ended
  last_call,           \* the last call that ended: chunk, i, attempt, reply
  chunks_dir,          \* the temporary directory of the chunk files: exists
                       \* or removed
  chunk_files,         \* the number of chunk files in chunks_dir
  caller,              \* the entry point that runs one document: its
                       \* arguments, its settings, where it is, what it reports
  upserts,             \* the calls of insert_extraction: where each is, its
                       \* arguments, the existing_id it read
  store,               \* the rows of the table llm_extractions; a row's id is
                       \* its index
  splitter             \* the call of split_pdf_to_chunks: its source, its
                       \* chunk_size, whether it returned or raised, the
                       \* chunks it returned, the chunk files it left
  ,job                 \* the trigger that starts the entry point: the
                       \* object it names or the bucket it lists, the
                       \* results of the batch, what it returns
  ,chunker             \* the call of _chunk_text: its text, chunk_size and
                       \* overlap, the loop's start, the windows appended
  ,merge_run           \* the merge of the results of a document's chunks:
                       \* the accumulator it starts from and the results
                       \* in the order of their chunks
  ,paths               \* the two entry points run on the same outcomes of
                       \* their collaborators: what each reports and stores
  ,session             \* a deliberation session of the council API: its
                       \* status, its stored messages, the requests in flight

vars == <<settings, pc, total_chunks, chunk_number, current_extraction,
          successful_chunks, error, messages, model_chain, i, attempt,
          last_error, result, prev_extraction, merged, chunk_status,
          chunk_error, calls, last_call, chunks_dir, chunk_files,
          caller, upserts, store, splitter, job, chunker, merge_run,
          paths, session>>

\* what only the text chunker, the merge of a sequence and the council API
\* touch
other_vars == <<chunker, merge_run, paths, session>>

\* what the document run reads (its settings) or never touches (its caller
\* and the database)
config_vars == <<settings, caller, upserts, store, splitter, job, other_vars>>
dir_vars == <<chunks_dir, chunk_files>>
chunk_vars == <<messages, model_chain, i, attempt, last_error>>
ghost_vars == <<merged, chunk_status, chunk_error, calls, last_call>>

NoResult == [fields_set |-> {}, data |-> [f \in Fields |-> Null]]
NoMessages == [chunk_number |-> 0, current_extraction |-> EmptyDict]

\* Python's None in the arguments and the rows of the database
None == "None"
\* no entry point is running
NoCaller == [pc |-> "none"]
\* split_pdf_to_chunks is not called
NoSplit == [pc |-> "none"]
\* no trigger is modelled
NoJob == [pc |-> "none"]
\* _chunk_text is not called
NoChunker == [pc |-> "none"]
\* no sequence of results is merged
NoMergeRun == [current |-> EmptyDict, new_results |-> <<>>]
\* the entry points are not compared
NoPaths == [pc |-> "none"]
\* no session of the council API is modelled
NoSession == [pc |-> "none"]
OthersIdle ==
  /\ chunker = NoChunker
  /\ merge_run = NoMergeRun
  /\ paths = NoPaths
  /\ session = NoSession

(***************************************************************************)
(* The model chain and one call of a model.                                *)
(***************************************************************************)
\* extract_from_pdf_chunk: the chain is the three settings in order, falsy
\* entries skipped, an entry already seen skipped
RECURSIVE dedupe(_, _)
\* variant: an entry already in the chain is appended again
dedupe_keeps_repeats(names, chain) ==
  IF names = <<>> THEN chain
  ELSE IF Head(names) # "" THEN dedupe(Tail(names), Append(chain, Head(names)))
  ELSE dedupe(Tail(names), chain)

dedupe(names, chain) ==
  IF names = <<>> THEN chain
  ELSE LET model == Head(names)
       IN IF model # "" /\ \A j \in 1..Len(chain) : chain[j] # model
            THEN dedupe(Tail(names), Append(chain, model))
            ELSE dedupe(Tail(names), chain)

build_model_chain(s) ==
  dedupe(<<s.extraction_model, s.extraction_fallback_model,
           s.extraction_fallback_model_2>>, <<>>)

\* variant: the same delay before every retry
backoff_constant(att) == 1
\* asyncio.sleep(2 ** attempt): the seconds waited after attempt att failed
backoff(att) == 2 ^ att

\* variant: one attempt too many
has_next_attempt_one_more(att) == att < max_attempts

\* _try_pdf_model_with_retries: range(max_attempts) has an attempt after this
has_next_attempt(att) == att < max_attempts - 1

\* variant: finish_reason is not looked at
_call_pdf_extraction_llm_no_length_check(reply) ==
  IF reply.raised THEN [raises |-> "Exception"]
  ELSE IF ~reply.content.json THEN [raises |-> "JSONDecodeError"]
  ELSE IF ~reply.content.valid THEN [raises |-> "Exception"]
  ELSE [raises |-> "none", value |-> reply.content.parsed]

\* _call_pdf_extraction_llm on what acompletion gave back: the exception it
\* raises, or the ExtractionResult it returns
_call_pdf_extraction_llm(reply) ==
  IF reply.raised THEN [raises |-> "Exception"]
  ELSE IF reply.finish_reason = "length"
    THEN [raises |-> "TruncationError"]
  ELSE IF ~reply.content.json THEN [raises |-> "JSONDecodeError"]
  ELSE IF ~reply.content.valid THEN [raises |-> "Exception"]
  ELSE [raises |-> "none", value |-> reply.content.parsed]

(***************************************************************************)
(* The splitter: split_pdf_to_chunks.                                      *)
(***************************************************************************)
\* a source is a PDF of some number of pages, or a file that PdfReader
\* cannot open or parse
Unreadable == {"missing", "denied", "corrupt", "other"}

\* the exception PdfReader(pdf_path) raises for an unreadable source
PdfReader(kind) ==
  CASE kind = "missing" -> "FileNotFoundError"
    [] kind = "denied" -> "PermissionError"
    [] kind = "corrupt" -> "PdfReadError"
    [] OTHER -> "Exception"

\* variant: one handler for every exception of the read
reader_error_one_handler(exc) ==
  raise_from(ValueError("Unexpected error reading PDF file"), "Exception")

\* the handlers of the read
reader_error(exc) ==
  CASE exc = "FileNotFoundError" ->
         raise_from(ValueError("PDF file not found"), exc)
    [] exc = "PermissionError" ->
         raise_from(ValueError("Permission denied reading PDF file"), exc)
    [] exc = "PdfReadError" ->
         raise_from(ValueError("Failed to read PDF file (invalid or corrupted)"),
                    exc)
    [] OTHER ->
         raise_from(ValueError("Unexpected error reading PDF file"), exc)

\* the exceptions the writing of a chunk file can raise
WriteExceptions == {"PermissionError", "OSError", "PdfReadError", "Exception"}

\* the handlers of the write
writer_error(exc) ==
  CASE exc = "PermissionError" ->
         raise_from(IOError("Permission denied writing chunk file"), exc)
    [] exc = "OSError" ->
         raise_from(IOError("I/O error writing chunk file"), exc)
    [] exc = "PdfReadError" ->
         raise_from(ValueError("PDF error creating chunk"), exc)
    [] OTHER ->
         raise_from(IOError("Unexpected error writing chunk file"), exc)

\* for start_idx in range(0, total_pages, chunk_size), from start_idx on:
\* the 1-indexed page ranges of the chunks
RECURSIVE range_loop(_, _, _)
\* variant: the end page is the first page of the next chunk
range_loop_end_exclusive(start_idx, total_pages, chunk_size) ==
  IF chunk_size <= 0 \/ start_idx >= total_pages THEN <<>>
  ELSE LET end_idx == IF start_idx + chunk_size < total_pages
                        THEN start_idx + chunk_size ELSE total_pages
       IN <<[start_page |-> start_idx + 1, end_page |-> end_idx + 1]>>
          \o range_loop(start_idx + chunk_size, total_pages, chunk_size)

range_loop(start_idx, total_pages, chunk_size) ==
  IF chunk_size <= 0 \/ start_idx >= total_pages THEN <<>>
  ELSE LET end_idx == IF start_idx + chunk_size < total_pages
                        THEN start_idx + chunk_size ELSE total_pages
       IN <<[start_page |-> start_idx + 1, end_page |-> end_idx]>>
          \o range_loop(start_idx + chunk_size, total_pages, chunk_size)

\* a call of split_pdf_to_chunks that has not ended
split_call(source, chunk_size) ==
  [pc |-> "called", source |-> source, chunk_size |-> chunk_size,
   chunks |-> <<>>, written |-> 0, error |-> NoError]

\* the call raises e with this many chunk files written
split_raised(call, e, written) ==
  [call EXCEPT !.pc = "raised", !.error = e, !.written = written]

\* variant: a document of no page is not checked for
split_outcomes_no_page_check(call) ==
  IF call.source.kind \in Unreadable
    THEN {split_raised(call, reader_error(PdfReader(call.source.kind)), 0)}
  ELSE LET chunks == range_loop(0, call.source.total_pages, call.chunk_size)
       IN {[call EXCEPT !.pc = "returned", !.chunks = chunks,
                        !.written = Len(chunks)]}
          \cup {split_raised(call, writer_error(exc), k - 1) :
                  k \in 1..Len(chunks), exc \in WriteExceptions}

\* the ways a call of split_pdf_to_chunks can end: the read raises, the
\* document has no page, the write of the k-th chunk file raises (the
\* partial file is removed, the files before it stay), or the chunks are
\* returned
split_outcomes(call) ==
  IF call.source.kind \in Unreadable
    THEN {split_raised(call, reader_error(PdfReader(call.source.kind)), 0)}
  ELSE IF call.source.total_pages = 0
    THEN {split_raised(call, ValueError("PDF has no pages"), 0)}
  ELSE LET chunks == range_loop(0, call.source.total_pages, call.chunk_size)
       IN {[call EXCEPT !.pc = "returned", !.chunks = chunks,
                        !.written = Len(chunks)]}
          \cup {split_raised(call, writer_error(exc), k - 1) :
                  k \in 1..Len(chunks), exc \in WriteExceptions}

\* every error split_pdf_to_chunks raises
SplitErrors ==
  {reader_error(PdfReader(kind)) : kind \in Unreadable}
  \cup {ValueError("PDF has no pages")}
  \cup {writer_error(exc) : exc \in WriteExceptions}

\* extraction_chunk_size of the settings: its default
extraction_chunk_size == 10

\* the chunk sizes of a run: the default, and a negative one (the setting
\* has no validator), for which the page range is empty
ChunkSizes == {extraction_chunk_size, -1}

\* the sources of a run: unreadable files, a PDF of no page, and PDFs of
\* 1..MaxChunks chunks the last of which is half full
RunSources ==
  {[kind |-> kind] : kind \in Unreadable}
  \cup {[kind |-> "pdf", total_pages |-> 0]}
  \cup {[kind |-> "pdf", total_pages |-> extraction_chunk_size * n - 5] :
          n \in 1..MaxChunks}

(***************************************************************************)
(* The document run: process_document_pdf_extraction.                      *)
(***************************************************************************)
Init ==
  /\ \E source \in RunSources, chunk_size \in ChunkSizes :
       splitter = split_call(source, chunk_size)
  /\ job = NoJob
  /\ OthersIdle
  /\ settings \in SettingsChoices
  /\ pc = "split"
  /\ total_chunks = 0
  /\ chunk_number = 0
  /\ current_extraction = EmptyDict
  /\ successful_chunks = 0
  /\ error = NoError
  /\ messages = NoMessages
  /\ model_chain = <<>>
  /\ i = 0
  /\ attempt = 0
  /\ last_error = NoError
  /\ result = NoResult
  /\ prev_extraction = EmptyDict
  /\ merged = <<>>
  /\ chunk_status = [n \in 1..MaxChunks |-> "pending"]
  /\ chunk_error = NoError
  /\ calls = <<>>
  /\ last_call = NoCall
  /\ chunks_dir = "exists"
  /\ chunk_files = 0
  /\ caller = NoCaller
  /\ upserts = <<>>
  /\ store = <<>>

\* variant: the directory is removed at the end of the try body, not in a
\* finally block
cleanup_on_return_only(raised, files) ==
  IF raised
    THEN chunks_dir' = chunks_dir /\ chunk_files' = files
    ELSE chunks_dir' = "removed" /\ chunk_files' = 0

\* the finally block: shutil.rmtree(chunks_dir), whether the try body
\* returned or raised; files is the number of chunk files at that point
cleanup(raised, files) ==
  /\ chunks_dir' = "removed"
  /\ chunk_files' = 0

\* split_pdf_to_chunks returns the chunks of the document
split_pdf_to_chunks ==
  /\ pc = "split"
  /\ \E out \in split_outcomes(splitter) :
       /\ out.pc = "returned"
       /\ out.chunks # <<>>
       /\ splitter' = out
  /\ total_chunks' = Len(splitter'.chunks)
  /\ chunk_files' = splitter'.written
  /\ chunk_number' = 1
  /\ current_extraction' = EmptyDict
  /\ successful_chunks' = 0
  /\ pc' = "chunk"
  /\ UNCHANGED <<settings, caller, upserts, store, job, other_vars, chunks_dir, error,
                 chunk_vars, result, prev_extraction, ghost_vars>>

\* split_pdf_to_chunks raises: the document cannot be read or has no page
\* (no chunk file written), or a chunk file cannot be written (the chunk
\* files before it are in the directory)
split_raises ==
  /\ pc = "split"
  /\ \E out \in split_outcomes(splitter) :
       /\ out.pc = "raised"
       /\ splitter' = out
  /\ error' = splitter'.error
  /\ pc' = "failed"
  /\ cleanup(TRUE, splitter'.written)
  /\ UNCHANGED <<settings, caller, upserts, store, job, other_vars, total_chunks, chunk_number, current_extraction,
                 successful_chunks, chunk_vars, result, prev_extraction,
                 ghost_vars>>

\* split_pdf_to_chunks returns no chunk (an empty page range): the run raises
no_chunks_created ==
  /\ pc = "split"
  /\ \E out \in split_outcomes(splitter) :
       /\ out.pc = "returned"
       /\ out.chunks = <<>>
       /\ splitter' = out
  /\ error' = ValueError("No chunks created")
  /\ pc' = "failed"
  /\ cleanup(TRUE, splitter'.written)
  /\ UNCHANGED <<settings, caller, upserts, store, job, other_vars, total_chunks, chunk_number, current_extraction,
                 successful_chunks, chunk_vars, result, prev_extraction,
                 ghost_vars>>

\* variant: no handler in the chunk loop, the exception ends the run
chunk_raises_aborts(e) ==
  /\ chunk_status' = [chunk_status EXCEPT ![chunk_number] = "failed"]
  /\ chunk_error' = e
  /\ chunk_number' = chunk_number
  /\ pc' = "failed"
  /\ UNCHANGED <<current_extraction, successful_chunks, result,
                 prev_extraction, merged>>

\* variant: the success counter is incremented after the handler, for a
\* failed chunk too
chunk_raises_counts(e) ==
  /\ chunk_status' = [chunk_status EXCEPT ![chunk_number] = "failed"]
  /\ chunk_error' = e
  /\ chunk_number' = chunk_number + 1
  /\ pc' = "chunk"
  /\ successful_chunks' = successful_chunks + 1
  /\ UNCHANGED <<current_extraction, result, prev_extraction, merged>>

\* the exception handler of the chunk loop: log, continue with the next chunk
chunk_raises(e) ==
  /\ chunk_status' = [chunk_status EXCEPT ![chunk_number] = "failed"]
  /\ chunk_error' = e
  /\ chunk_number' = chunk_number + 1
  /\ pc' = "chunk"
  /\ UNCHANGED <<current_extraction, successful_chunks, result,
                 prev_extraction, merged>>

\* variant: the prompt embeds the accumulator of before the last merge
build_messages_stale(n, extraction) ==
  [chunk_number |-> n, current_extraction |-> prev_extraction]

\* extract_from_pdf_chunk: the prompt embeds the accumulator it was given
build_messages(n, extraction) ==
  [chunk_number |-> n, current_extraction |-> extraction]

\* variant: the chain is not checked for being empty
begin_chunk_unchecked ==
  /\ pc = "chunk"
  /\ chunk_number <= total_chunks
  /\ messages' = build_messages(chunk_number, current_extraction)
  /\ model_chain' = build_model_chain(settings)
  /\ i' = 0
  /\ attempt' = 0
  /\ last_error' = NoError
  /\ calls' = [j \in 1..Len(model_chain') |-> NoCalls]
  /\ chunk_status' = [chunk_status EXCEPT ![chunk_number] = "processing"]
  /\ pc' = "call"
  /\ UNCHANGED <<chunk_number, current_extraction, successful_chunks,
                 result, prev_extraction, merged, chunk_error, last_call>>
  /\ UNCHANGED <<config_vars, dir_vars, total_chunks, error>>

\* top of a loop iteration up to the first call: extract_from_pdf_chunk
\* builds the prompt from the accumulator and the model chain
begin_chunk ==
  /\ pc = "chunk"
  /\ chunk_number <= total_chunks
  /\ messages' = build_messages(chunk_number, current_extraction)
  /\ model_chain' = build_model_chain(settings)
  /\ i' = 0
  /\ attempt' = 0
  /\ last_error' = NoError
  /\ calls' = [j \in 1..Len(model_chain') |-> NoCalls]
  /\ IF model_chain' = <<>>
       THEN /\ chunk_raises(ValueError("No extraction models configured"))
            /\ UNCHANGED last_call
       ELSE /\ chunk_status' = [chunk_status EXCEPT ![chunk_number] = "processing"]
            /\ pc' = "call"
            /\ UNCHANGED <<chunk_number, current_extraction, successful_chunks,
                           result, prev_extraction, merged, chunk_error,
                           last_call>>
  /\ UNCHANGED <<config_vars, dir_vars, total_chunks, error>>

\* _call_pdf_extraction_llm awaits acompletion(model, messages)
acompletion_call ==
  /\ pc = "call"
  /\ pc' = "in_flight"
  /\ UNCHANGED <<config_vars, dir_vars, total_chunks, chunk_number, current_extraction,
                 successful_chunks, error, chunk_vars, result, prev_extraction,
                 ghost_vars>>

\* variant: a failed model ends the chunk, the rest of the chain is not tried
next_model_gives_up(err) ==
  /\ chunk_raises(IF err # NoError THEN err
                  ELSE ValueError("PDF extraction failed"))
  /\ last_error' = err
  /\ UNCHANGED <<i, attempt>>

\* extract_from_pdf_chunk goes on to the next model of the chain, or raises
\* when the chain is exhausted
next_model(err) ==
  IF i + 1 < Len(model_chain)
    THEN /\ i' = i + 1
         /\ attempt' = 0
         /\ last_error' = err
         /\ pc' = "call"
         /\ UNCHANGED <<chunk_number, current_extraction, successful_chunks,
                        result, prev_extraction, merged, chunk_status,
                        chunk_error>>
    ELSE /\ chunk_raises(IF err # NoError THEN err
                         ELSE ValueError("PDF extraction failed"))
         /\ last_error' = err
         /\ UNCHANGED <<i, attempt>>

\* acompletion ends: _call_pdf_extraction_llm, the retry loop, the fallback
\* loop and the chunk loop run up to the next await
acompletion_return ==
  /\ pc = "in_flight"
  /\ \E reply \in Replies :
       LET out == _call_pdf_extraction_llm(reply)
       IN /\ last_call' = [chunk |-> chunk_number, i |-> i,
                           attempt |-> attempt, reply |-> reply]
          /\ calls' = [calls EXCEPT ![i + 1] =
                         [n |-> @.n + 1,
                          last |-> IF out.raises = "none" THEN "ok"
                                   ELSE out.raises,
                          slept |-> IF out.raises \notin {"none", "TruncationError"}
                                         /\ has_next_attempt(attempt)
                                      THEN Append(@.slept, backoff(attempt))
                                      ELSE @.slept]]
          /\ IF out.raises = "none"
               THEN \* returned through the retry and the fallback loop: merge
                    /\ result' = out.value
                    /\ prev_extraction' = current_extraction
                    /\ current_extraction' =
                         _deep_merge_extraction(current_extraction, out.value)
                    /\ successful_chunks' = successful_chunks + 1
                    /\ merged' = Append(merged, [chunk |-> chunk_number,
                                                 result |-> out.value])
                    /\ chunk_status' = [chunk_status EXCEPT ![chunk_number] = "ok"]
                    /\ chunk_number' = chunk_number + 1
                    /\ pc' = "chunk"
                    /\ chunk_error' = NoError
                    /\ UNCHANGED <<i, attempt, last_error>>
             ELSE IF out.raises = "TruncationError"
               THEN \* re-raised by the retry loop, caught by the fallback loop
                    next_model(TruncationError(i))
             ELSE IF has_next_attempt(attempt)
               THEN \* JSONDecodeError or any other exception: back off, retry
                    /\ pc' = "sleep"
                    /\ UNCHANGED <<chunk_number, current_extraction,
                                   successful_chunks, result, prev_extraction,
                                   merged, chunk_status, chunk_error, i, attempt,
                                   last_error>>
             ELSE \* attempts used up: None is returned, last_error stays
                  next_model(last_error)
  /\ UNCHANGED <<config_vars, dir_vars, total_chunks, error, messages,
                 model_chain>>

\* asyncio.sleep(2 ** attempt) ends: the next attempt on the same model
asyncio_sleep ==
  /\ pc = "sleep"
  /\ attempt' = attempt + 1
  /\ pc' = "call"
  /\ UNCHANGED <<config_vars, dir_vars, total_chunks, chunk_number, current_extraction,
                 successful_chunks, error, messages, model_chain, i, last_error,
                 result, prev_extraction, ghost_vars>>

\* variant: the run fails when any chunk failed
all_chunks_failed_any ==
  /\ pc = "chunk"
  /\ chunk_number > total_chunks
  /\ successful_chunks < total_chunks
  /\ error' = ValueError("All chunks failed")
  /\ pc' = "failed"
  /\ cleanup(TRUE, chunk_files)
  /\ UNCHANGED <<config_vars, total_chunks, chunk_number, current_extraction,
                 successful_chunks, chunk_vars, result, prev_extraction,
                 ghost_vars>>

\* after the loop: no chunk succeeded
all_chunks_failed ==
  /\ pc = "chunk"
  /\ chunk_number > total_chunks
  /\ successful_chunks = 0
  /\ error' = ValueError("All chunks failed")
  /\ pc' = "failed"
  /\ cleanup(TRUE, chunk_files)
  /\ UNCHANGED <<config_vars, total_chunks, chunk_number, current_extraction,
                 successful_chunks, chunk_vars, result, prev_extraction,
                 ghost_vars>>

\* after the loop: at least one chunk succeeded, on to the summaries
begin_summaries ==
  /\ pc = "chunk"
  /\ chunk_number > total_chunks
  /\ successful_chunks # 0
  /\ pc' = "summaries"
  /\ UNCHANGED <<config_vars, dir_vars, total_chunks, chunk_number, current_extraction,
                 successful_chunks, error, chunk_vars, result, prev_extraction,
                 ghost_vars>>

\* generate_summary_id and generate_summary_en return; the run returns
generate_summaries ==
  /\ pc = "summaries"
  /\ pc' = "completed"
  /\ cleanup(FALSE, chunk_files)
  /\ UNCHANGED <<config_vars, total_chunks, chunk_number, current_extraction,
                 successful_chunks, error, chunk_vars, result, prev_extraction,
                 ghost_vars>>

\* generate_summary_id or generate_summary_en raises: nothing catches it in
\* process_document_pdf_extraction, the run raises
generate_summaries_raises ==
  /\ pc = "summaries"
  /\ pc' = "failed"
  /\ error' = Exception("summary")
  /\ cleanup(TRUE, chunk_files)
  /\ UNCHANGED <<config_vars, total_chunks, chunk_number, current_extraction,
                 successful_chunks, chunk_vars, result, prev_extraction,
                 ghost_vars>>

Next ==
  \/ split_pdf_to_chunks
  \/ split_raises
  \/ no_chunks_created
  \/ begin_chunk
  \/ acompletion_call
  \/ acompletion_return
  \/ asyncio_sleep
  \/ all_chunks_failed
  \/ begin_summaries
  \/ generate_summaries
  \/ generate_summaries_raises

Spec == Init /\ [][Next]_vars

(***************************************************************************)
(* The document run when its task can be cancelled.  The run has no        *)
(* cancellation check of its own: the one cancellation there is is that of *)
(* the asyncio task, which raises CancelledError inside the coroutine at   *)
(* the await it is suspended in (acompletion, asyncio.sleep).              *)
(* CancelledError is a BaseException: neither the retry loop's nor the     *)
(* chunk loop's 'except Exception' catches it, the finally block runs and  *)
(* the exception leaves the run.                                           *)
(***************************************************************************)
task_cancel ==
  /\ pc \in {"in_flight", "sleep"}
  /\ error' = CancelledError(pc)
  /\ pc' = "cancelled"
  /\ cleanup(TRUE, chunk_files)
  /\ UNCHANGED <<config_vars, total_chunks, chunk_number, current_extraction,
                 successful_chunks, chunk_vars, result, prev_extraction,
                 ghost_vars>>

CancelNext ==
  \/ Next
  \/ task_cancel

CancelSpec == Init /\ [][CancelNext]_vars

(***************************************************************************)
(* The merge as a function: an accumulator a run can hold and any result.  *)
(***************************************************************************)
MergeInit ==
  /\ current_extraction \in Accumulators
  /\ result \in ExtractionResults
  /\ prev_extraction = current_extraction
  /\ pc = "merge"
  /\ settings = [extraction_model |-> "", extraction_fallback_model |-> "",
                 extraction_fallback_model_2 |-> ""]
  /\ total_chunks = 0
  /\ chunk_number = 0
  /\ successful_chunks = 0
  /\ error = NoError
  /\ messages = NoMessages
  /\ model_chain = <<>>
  /\ i = 0
  /\ attempt = 0
  /\ last_error = NoError
  /\ merged = <<>>
  /\ chunk_status = [n \in 1..MaxChunks |-> "pending"]
  /\ chunk_error = NoError
  /\ calls = <<>>
  /\ last_call = NoCall
  /\ chunks_dir = "exists"
  /\ chunk_files = 0
  /\ caller = NoCaller
  /\ upserts = <<>>
  /\ store = <<>>
  /\ splitter = NoSplit
  /\ job = NoJob
  /\ OthersIdle

Merge ==
  /\ pc = "merge"
  /\ prev_extraction' = current_extraction
  /\ current_extraction' = _deep_merge_extraction(current_extraction, result)
  /\ pc' = "merged"
  /\ UNCHANGED <<result, settings, total_chunks, chunk_number, successful_chunks,
                 error, chunk_vars, ghost_vars, dir_vars, caller, upserts,
                 store, splitter, job, other_vars>>

MergeNext == Merge

MergeSpec == MergeInit /\ [][MergeNext]_vars

MergeClosed == current_extraction \in Accumulators

(***************************************************************************)
(* The persistence layer: insert_extraction (database.py) on the table     *)
(* llm_extractions.                                                        *)
(***************************************************************************)
\* ExtractionStatus
COMPLETED == "completed"
FAILED == "failed"

\* the object names of the documents: two of them have the same base name
Files == {"p/a.pdf", "q/a.pdf", "b.pdf"}

\* the base name of the object without its .pdf extension
_extract_decision_number(file_name) ==
  CASE file_name \in {"p/a.pdf", "q/a.pdf"} -> "a"
    [] file_name = "b.pdf" -> "b"
    [] file_name = "c.PDF" -> "c"
    [] OTHER -> file_name

\* COALESCE($n, column)
coalesce(incoming, stored) == IF incoming # None THEN incoming ELSE stored

\* the arguments of insert_extraction for an extraction that succeeded
completed_args(file_name, extraction_embedding) ==
  [extraction_id |-> _extract_decision_number(file_name),
   extraction_result |-> "extraction",
   summaries |-> "summaries",
   extraction_embedding |-> extraction_embedding,
   status |-> COMPLETED,
   error_message |-> None,
   source_file |-> file_name]

\* the arguments of insert_extraction in the callers' exception handler
failed_args(file_name, e) ==
  [extraction_id |-> None,
   extraction_result |-> None,
   summaries |-> None,
   extraction_embedding |-> None,
   status |-> FAILED,
   error_message |-> e.msg,
   source_file |-> file_name]

\* existing_id = None: no row was found (row ids are 1, 2, ...)
NoId == 0

\* SELECT id FROM llm_extractions WHERE extraction_id = $1: the ids fetchval
\* can return (the id of a matching row, None when no row matches)
fetchval(table, extraction_id) ==
  LET ids == {id \in 1..Len(table) : table[id].extraction_id = extraction_id}
  IN IF ids = {} THEN {NoId} ELSE ids

\* an UPDATE that assigns every column the incoming value
execute_update_assigns(table, id, args) ==
  [table EXCEPT ![id] = [args EXCEPT !.extraction_id = table[id].extraction_id]]

\* UPDATE llm_extractions SET ... WHERE id = $1
execute_update(table, id, args) ==
  [table EXCEPT ![id] =
     [extraction_id |-> @.extraction_id,
      extraction_result |-> coalesce(args.extraction_result, @.extraction_result),
      summaries |-> coalesce(args.summaries, @.summaries),
      extraction_embedding |->
        coalesce(args.extraction_embedding, @.extraction_embedding),
      status |-> args.status,
      error_message |-> args.error_message,
      source_file |-> coalesce(args.source_file, @.source_file)]]

\* INSERT INTO llm_extractions ... with a fresh id
execute_insert(table, args) == Append(table, args)

\* a call of insert_extraction that has not begun
Idle == [pc |-> "idle", args |-> None, existing_id |-> NoId]

\* insert_extraction up to its first statement: the existence check is made
\* only for a truthy extraction_id
begin_insert(args) ==
  [pc |-> IF args.extraction_id # None THEN "fetchval" ELSE "execute",
   args |-> args,
   existing_id |-> NoId]

\* the variables of the document run, and with the splitter's
doc_vars == <<settings, pc, total_chunks, chunk_number, current_extraction,
              successful_chunks, error, messages, model_chain, i, attempt,
              last_error, result, prev_extraction, merged, chunk_status,
              chunk_error, calls, last_call, chunks_dir, chunk_files>>
run_vars == <<doc_vars, splitter, job, other_vars>>

\* no document run is modelled step by step
NoRun ==
  /\ settings = [extraction_model |-> "", extraction_fallback_model |-> "",
                 extraction_fallback_model_2 |-> ""]
  /\ pc = "none"
  /\ total_chunks = 0
  /\ chunk_number = 0
  /\ current_extraction = EmptyDict
  /\ successful_chunks = 0
  /\ error = NoError
  /\ messages = NoMessages
  /\ model_chain = <<>>
  /\ i = 0
  /\ attempt = 0
  /\ last_error = NoError
  /\ result = NoResult
  /\ prev_extraction = EmptyDict
  /\ merged = <<>>
  /\ chunk_status = [n \in 1..MaxChunks |-> "pending"]
  /\ chunk_error = NoError
  /\ calls = <<>>
  /\ last_call = NoCall
  /\ chunks_dir = "removed"
  /\ chunk_files = 0

\* await conn.fetchval(...) ends: with the id read, or with an exception
conn_fetchval(c) ==
  /\ upserts[c].pc = "fetchval"
  /\ \/ \E id \in fetchval(store, upserts[c].args.extraction_id) :
          upserts' = [upserts EXCEPT ![c] =
                        [@ EXCEPT !.pc = "execute", !.existing_id = id]]
     \/ upserts' = [upserts EXCEPT ![c] = [@ EXCEPT !.pc = "raised"]]
  /\ UNCHANGED <<store, caller, run_vars>>

\* await conn.execute(...) ends: the UPDATE of the row found, or the INSERT
\* of a new row, or an exception
conn_execute(c) ==
  /\ upserts[c].pc = "execute"
  /\ \/ /\ store' = IF upserts[c].existing_id # NoId
                      THEN execute_update(store, upserts[c].existing_id,
                                          upserts[c].args)
                      ELSE execute_insert(store, upserts[c].args)
        /\ upserts' = [upserts EXCEPT ![c] = [@ EXCEPT !.pc = "returned"]]
     \/ /\ upserts' = [upserts EXCEPT ![c] = [@ EXCEPT !.pc = "raised"]]
        /\ UNCHANGED store
  /\ UNCHANGED <<caller, run_vars>>

(***************************************************************************)
(* The splitter on its own: one call of split_pdf_to_chunks on a source    *)
(* of 0..MaxPages pages, or on an unreadable one, with a positive          *)
(* chunk_size.                                                             *)
(***************************************************************************)
SplitSources ==
  {[kind |-> kind] : kind \in Unreadable}
  \cup {[kind |-> "pdf", total_pages |-> P] : P \in 0..MaxPages}

SplitInit ==
  /\ NoRun
  /\ caller = NoCaller
  /\ upserts = <<>>
  /\ store = <<>>
  /\ \E source \in SplitSources, chunk_size \in 1..MaxChunkSize :
       splitter = split_call(source, chunk_size)
  /\ job = NoJob
  /\ OthersIdle

\* the call ends
split_ends ==
  /\ splitter.pc = "called"
  /\ splitter' \in split_outcomes(splitter)
  /\ UNCHANGED <<doc_vars, caller, upserts, store, job, other_vars>>

SplitNext == split_ends

SplitSpec == SplitInit /\ [][SplitNext]_vars

(***************************************************************************)
(* Calls of insert_extraction that run against the same table: the calls   *)
(* of runs in different processes (each call has its own connection).      *)
(***************************************************************************)
\* the calls the entry points make
UpsertArgs ==
  {completed_args("p/a.pdf", "vector"), completed_args("q/a.pdf", None),
   completed_args("b.pdf", "vector"),
   failed_args("p/a.pdf", ValueError("All chunks failed"))}

UpsertInit ==
  /\ NoRun
  /\ splitter = NoSplit
  /\ job = NoJob
  /\ OthersIdle
  /\ caller = NoCaller
  /\ upserts = [c \in 1..MaxCalls |-> Idle]
  /\ store = <<>>

\* an entry point calls insert_extraction
call_insert_extraction(c) ==
  /\ upserts[c].pc = "idle"
  /\ \E args \in UpsertArgs :
       upserts' = [upserts EXCEPT ![c] = begin_insert(args)]
  /\ UNCHANGED <<store, caller, run_vars>>

UpsertNext ==
  \/ \E c \in DOMAIN upserts : call_insert_extraction(c)
  \/ \E c \in DOMAIN upserts : conn_fetchval(c)
  \/ \E c \in DOMAIN upserts : conn_execute(c)

UpsertSpec == UpsertInit /\ [][UpsertNext]_vars

(***************************************************************************)
(* One call of insert_extraction against a table that holds one row, the   *)
(* arguments drawn from the function's parameters: every nullable          *)
(* parameter is None or a value, the stored columns likewise.              *)
(***************************************************************************)
\* the columns of llm_extractions that can hold NULL
NullableColumns ==
  {"extraction_result", "summaries", "extraction_embedding", "error_message",
   "source_file"}

\* the rows a table can hold under the key "a"
StoredRows ==
  [extraction_id : {"a"},
   extraction_result : {None, "old"},
   summaries : {None, "old"},
   extraction_embedding : {None, "old"},
   status : {COMPLETED, FAILED},
   error_message : {None, "old"},
   source_file : {None, "old"}]

\* the arguments insert_extraction accepts
InsertArgs ==
  [extraction_id : {None, "a"},
   extraction_result : {None, "new"},
   summaries : {None, "new"},
   extraction_embedding : {None, "new"},
   status : {COMPLETED, FAILED},
   error_message : {None, "new"},
   source_file : {None, "new"}]

RecordInit ==
  /\ NoRun
  /\ splitter = NoSplit
  /\ job = NoJob
  /\ OthersIdle
  /\ caller = NoCaller
  /\ upserts = <<Idle>>
  /\ \E row \in StoredRows : store = execute_insert(<<>>, row)

\* insert_extraction is called
insert_extraction(c) ==
  /\ upserts[c].pc = "idle"
  /\ \E args \in InsertArgs :
       upserts' = [upserts EXCEPT ![c] = begin_insert(args)]
  /\ UNCHANGED <<store, caller, run_vars>>

RecordNext ==
  \/ insert_extraction(1)
  \/ conn_fetchval(1)
  \/ conn_execute(1)

RecordSpec == RecordInit /\ [][RecordNext]_vars

(***************************************************************************)
(* The entry points that run one document: _process_pdf_async (main.py,    *)
(* the Cloud Function) and process_single_pdf (job.py, the batch job).     *)
(***************************************************************************)
EntryPoints == {"_process_pdf_async", "process_single_pdf"}

\* what process_document_pdf_extraction raises: the file is missing, or one
\* of the errors the document run ends with
RunErrors ==
  {ValueError("PDF file not found"), ValueError("No chunks created"),
   ValueError("All chunks failed"), Exception("summary")}
  \cup SplitErrors

\* the table before the run: empty, or holding the row of an earlier
\* successful run of the same or of another document
EarlierStores ==
  {<<>>} \cup {execute_insert(<<>>, completed_args(f, "vector")) :
                 f \in {"p/a.pdf", "b.pdf"}}

\* the dict the entry point returns
success_report == [status |-> "success", error |-> None]
error_report(e) == [status |-> "error", error |-> e.msg]

CallerInit ==
  /\ NoRun
  /\ splitter = NoSplit
  /\ job = NoJob
  /\ OthersIdle
  /\ \E entry \in EntryPoints, file_name \in Files,
        enable_embeddings \in BOOLEAN, storage_enabled \in BOOLEAN :
       caller = [pc |-> "download",
                 entry |-> entry,
                 file_name |-> file_name,
                 decision_number |-> _extract_decision_number(file_name),
                 enable_embeddings |-> enable_embeddings,
                 storage_enabled |-> storage_enabled,
                 extraction |-> "none",
                 embeddings |-> "none",
                 extraction_embedding |-> None,
                 database |-> "none",
                 e |-> NoError,
                 report |-> None]
  /\ upserts = <<Idle>>
  /\ store \in EarlierStores

\* the exception handler of the entry point: the failure record is written
\* when database storage is enabled and configured, then the error is
\* reported
handle_exception(c, e) ==
  IF c.storage_enabled
    THEN /\ caller' = [c EXCEPT !.pc = "insert_failed", !.e = e]
         /\ upserts' = [upserts EXCEPT ![1] =
                          begin_insert(failed_args(c.file_name, e))]
    ELSE /\ caller' = [c EXCEPT !.pc = "done", !.e = e,
                                !.report = error_report(e)]
         /\ UNCHANGED upserts

\* after the embedding step: the extraction is stored when database storage
\* is enabled and configured, else the success is reported
store_extraction(c) ==
  IF c.storage_enabled
    THEN /\ caller' = [c EXCEPT !.pc = "insert"]
         /\ upserts' = [upserts EXCEPT ![1] =
                          begin_insert(completed_args(c.file_name,
                                                      c.extraction_embedding))]
    ELSE /\ caller' = [c EXCEPT !.pc = "done", !.report = success_report]
         /\ UNCHANGED upserts

\* the download of the PDF returns
download_returns ==
  /\ caller.pc = "download"
  /\ caller' = [caller EXCEPT !.pc = "extract"]
  /\ UNCHANGED <<upserts, store, run_vars>>

\* the download of the PDF raises
download_raises ==
  /\ caller.pc = "download"
  /\ handle_exception(caller, ValueError("Failed to download from GCS"))
  /\ UNCHANGED <<store, run_vars>>

\* process_document_pdf_extraction returns the extraction and the summaries
process_document_returns ==
  /\ caller.pc = "extract"
  /\ LET c == [caller EXCEPT !.extraction = "returned"]
     IN IF c.enable_embeddings
          THEN caller' = [c EXCEPT !.pc = "embed"] /\ UNCHANGED upserts
          ELSE store_extraction(c)
  /\ UNCHANGED <<store, run_vars>>

\* process_document_pdf_extraction raises
process_document_raises ==
  /\ caller.pc = "extract"
  /\ \E e \in RunErrors :
       handle_exception([caller EXCEPT !.extraction = "raised"], e)
  /\ UNCHANGED <<store, run_vars>>

\* embed_document returns the embeddings
embed_document_returns ==
  /\ caller.pc = "embed"
  /\ store_extraction([caller EXCEPT !.embeddings = "ok",
                                     !.extraction_embedding = "vector"])
  /\ UNCHANGED <<store, run_vars>>

\* variant: the failure of the embeddings is not caught
embed_document_raises_uncaught ==
  /\ caller.pc = "embed"
  /\ handle_exception([caller EXCEPT !.embeddings = "failed"],
                      Exception("embeddings"))
  /\ UNCHANGED <<store, run_vars>>

\* embed_document raises: the handler logs, the embeddings stay None
embed_document_raises ==
  /\ caller.pc = "embed"
  /\ store_extraction([caller EXCEPT !.embeddings = "failed"])
  /\ UNCHANGED <<store, run_vars>>

\* insert_extraction of the extraction returned: the success is reported
insert_returned ==
  /\ caller.pc = "insert"
  /\ upserts[1].pc = "returned"
  /\ caller' = [caller EXCEPT !.pc = "done", !.database = "ok",
                              !.report = success_report]
  /\ UNCHANGED <<upserts, store, run_vars>>

\* insert_extraction of the extraction raised: _process_pdf_async catches
\* it next to the call and reports the success; in process_single_pdf the
\* call has no handler of its own and the exception handler of the run
\* takes over
insert_raised ==
  /\ caller.pc = "insert"
  /\ upserts[1].pc = "raised"
  /\ LET c == [caller EXCEPT !.database = "failed"]
     IN IF c.entry = "_process_pdf_async"
          THEN /\ caller' = [c EXCEPT !.pc = "done",
                                      !.report = success_report]
               /\ UNCHANGED upserts
          ELSE handle_exception(c, Exception("database"))
  /\ UNCHANGED <<store, run_vars>>

\* insert_extraction of the failure record returned or raised (a failure is
\* only logged): the error is reported
failure_record_done ==
  /\ caller.pc = "insert_failed"
  /\ upserts[1].pc \in {"returned", "raised"}
  /\ caller' = [caller EXCEPT !.pc = "done", !.report = error_report(caller.e)]
  /\ UNCHANGED <<upserts, store, run_vars>>

CallerNext ==
  \/ download_returns
  \/ download_raises
  \/ process_document_returns
  \/ process_document_raises
  \/ embed_document_returns
  \/ embed_document_raises
  \/ conn_fetchval(1)
  \/ conn_execute(1)
  \/ insert_returned
  \/ insert_raised
  \/ failure_record_done

CallerSpec == CallerInit /\ [][CallerNext]_vars

(***************************************************************************)
(* The triggers: process_pdf_event and process_pdf_http (main.py), which   *)
(* run _process_pdf_async, and main (job.py), which runs                   *)
(* process_single_pdf on SINGLE_FILE or process_bucket on the bucket.      *)
(***************************************************************************)
Triggers == {"process_pdf_event", "process_pdf_http", "SINGLE_FILE",
             "process_bucket"}

\* the objects of the bucket in the order list_blobs gives them
ObjectNames == <<"b.pdf", "c.PDF", "notes.txt", "p/a.pdf", "q/a.pdf">>

\* file_name.lower().endswith(".pdf")
is_pdf(file_name) == file_name \in {"b.pdf", "c.PDF", "p/a.pdf", "q/a.pdf"}

\* [blob.name for blob in blobs if blob.name.lower().endswith(".pdf")]
RECURSIVE pdf_names(_)
pdf_names(blobs) ==
  IF blobs = <<>> THEN <<>>
  ELSE IF is_pdf(Head(blobs)) THEN <<Head(blobs)>> \o pdf_names(Tail(blobs))
  ELSE pdf_names(Tail(blobs))

\* pdf_files[:limit] when limit is truthy (None is 0 here)
take(pdf_files, limit) ==
  IF limit # 0 /\ limit < Len(pdf_files) THEN SubSeq(pdf_files, 1, limit)
  ELSE pdf_files

JobInit ==
  /\ NoRun
  /\ OthersIdle
  /\ splitter = NoSplit
  /\ caller = NoCaller
  /\ upserts = <<Idle>>
  /\ store = <<>>
  /\ \E trigger \in Triggers, enable_embeddings \in BOOLEAN,
        storage_enabled \in BOOLEAN :
       \/ /\ trigger # "process_bucket"
          /\ \E n \in 1..Len(ObjectNames) :
               job = [pc |-> "start", trigger |-> trigger,
                      file_name |-> ObjectNames[n], blobs |-> <<>>,
                      limit |-> 0, enable_embeddings |-> enable_embeddings,
                      storage_enabled |-> storage_enabled,
                      pdf_files |-> <<>>, files |-> <<>>, success |-> 0,
                      failed |-> 0, returns |-> None]
       \/ /\ trigger = "process_bucket"
          /\ \E n \in 0..MaxBlobs, limit \in 0..MaxBlobs :
               job = [pc |-> "start", trigger |-> trigger,
                      file_name |-> None,
                      blobs |-> SubSeq(ObjectNames, 1, n),
                      limit |-> limit, enable_embeddings |-> enable_embeddings,
                      storage_enabled |-> storage_enabled,
                      pdf_files |-> <<>>, files |-> <<>>, success |-> 0,
                      failed |-> 0, returns |-> None]

\* the entry point is called on an object: up to its first await
run_entry(entry, file_name) ==
  /\ caller' = [pc |-> "download",
                entry |-> entry,
                file_name |-> file_name,
                decision_number |-> _extract_decision_number(file_name),
                enable_embeddings |-> job.enable_embeddings,
                storage_enabled |-> job.storage_enabled,
                extraction |-> "none",
                embeddings |-> "none",
                extraction_embedding |-> None,
                database |-> "none",
                e |-> NoError,
                report |-> None]
  /\ upserts' = <<Idle>>

\* process_pdf_event: an object that is not a PDF is skipped
process_pdf_event ==
  /\ job.pc = "start"
  /\ job.trigger = "process_pdf_event"
  /\ IF ~is_pdf(job.file_name)
       THEN /\ job' = [job EXCEPT !.pc = "done",
                                  !.returns = [status |-> "skipped"]]
            /\ UNCHANGED <<caller, upserts>>
       ELSE /\ job' = [job EXCEPT !.pc = "running"]
            /\ run_entry("_process_pdf_async", job.file_name)
  /\ UNCHANGED <<store, doc_vars, splitter, other_vars>>

\* process_pdf_http: an object that is not a PDF is answered with 400
process_pdf_http ==
  /\ job.pc = "start"
  /\ job.trigger = "process_pdf_http"
  /\ IF ~is_pdf(job.file_name)
       THEN /\ job' = [job EXCEPT !.pc = "done",
                                  !.returns = [status |-> 400]]
            /\ UNCHANGED <<caller, upserts>>
       ELSE /\ job' = [job EXCEPT !.pc = "running"]
            /\ run_entry("_process_pdf_async", job.file_name)
  /\ UNCHANGED <<store, doc_vars, splitter, other_vars>>

\* main with SINGLE_FILE set: process_single_pdf is called on the object
main_single_file ==
  /\ job.pc = "start"
  /\ job.trigger = "SINGLE_FILE"
  /\ job' = [job EXCEPT !.pc = "running"]
  /\ run_entry("process_single_pdf", job.file_name)
  /\ UNCHANGED <<store, doc_vars, splitter, other_vars>>

\* process_bucket up to the first await: the PDFs of the listing, cut to
\* limit, and the call of process_single_pdf on the first of them
process_bucket ==
  /\ job.pc = "start"
  /\ job.trigger = "process_bucket"
  /\ LET pdf_files == take(pdf_names(job.blobs), job.limit)
     IN IF pdf_files = <<>>
          THEN /\ job' = [job EXCEPT !.pc = "done", !.pdf_files = pdf_files,
                                     !.returns = [success |-> 0, failed |-> 0]]
               /\ UNCHANGED <<caller, upserts>>
          ELSE /\ job' = [job EXCEPT !.pc = "running", !.pdf_files = pdf_files]
               /\ run_entry("process_single_pdf", pdf_files[1])
  /\ UNCHANGED <<store, doc_vars, splitter, other_vars>>

\* _process_pdf_async or process_single_pdf returns to a trigger that runs
\* one document
entry_returns ==
  /\ job.pc = "running"
  /\ job.trigger # "process_bucket"
  /\ caller.pc = "done"
  /\ job' = [job EXCEPT !.pc = "done", !.returns = caller.report]
  /\ UNCHANGED <<caller, upserts, store, doc_vars, splitter, other_vars>>

\* the tally of process_bucket after a result
tally(j, status) ==
  IF status = "success"
    THEN [j EXCEPT !.success = @ + 1]
    ELSE [j EXCEPT !.failed = @ + 1]

\* variant: the loop is left at the first document that failed
next_file_stops_on_error(j, status) ==
  IF Len(j.files) < Len(j.pdf_files) /\ status = "success"
    THEN /\ job' = [j EXCEPT !.pc = "running"]
         /\ run_entry("process_single_pdf", j.pdf_files[Len(j.files) + 1])
    ELSE /\ job' = [j EXCEPT !.pc = "done",
                             !.returns = [success |-> j.success,
                                          failed |-> j.failed]]
         /\ UNCHANGED <<caller, upserts>>

\* the loop of process_bucket goes on to the next file, whatever the
\* status of the result, or returns the results after the last
next_file(j, status) ==
  IF Len(j.files) < Len(j.pdf_files)
    THEN /\ job' = [j EXCEPT !.pc = "running"]
         /\ run_entry("process_single_pdf", j.pdf_files[Len(j.files) + 1])
    ELSE /\ job' = [j EXCEPT !.pc = "done",
                             !.returns = [success |-> j.success,
                                          failed |-> j.failed]]
         /\ UNCHANGED <<caller, upserts>>

\* process_single_pdf returns to the loop of process_bucket: the result is
\* appended and counted, the loop runs up to the next await or returns
process_bucket_result ==
  /\ job.pc = "running"
  /\ job.trigger = "process_bucket"
  /\ caller.pc = "done"
  /\ LET res == [file |-> caller.file_name,
                 status |-> caller.report.status]
         j == tally([job EXCEPT !.files = Append(@, res)], res.status)
     IN next_file(j, res.status)
  /\ UNCHANGED <<store, doc_vars, splitter, other_vars>>

JobNext ==
  \/ process_pdf_event
  \/ process_pdf_http
  \/ main_single_file
  \/ process_bucket
  \/ entry_returns
  \/ process_bucket_result
  \/ CallerNext

JobSpec == JobInit /\ [][JobNext]_vars

(***************************************************************************)
(* The council API (src/api): one deliberation session, one request that   *)
(* sends a message (send_message or send_message_stream) and one request   *)
(* that closes the session (generate_opinion or archive_session), their    *)
(* awaits interleaved.                                                     *)
(***************************************************************************)
\* SessionStatus
ACTIVE == "active"
CONCLUDED == "concluded"
ARCHIVED == "archived"
SessionStatus == {ACTIVE, CONCLUDED, ARCHIVED}

SendEndpoints == {"send_message", "send_message_stream"}
CloseEndpoints == {"generate_opinion", "archive_session"}

CouncilInit ==
  /\ NoRun
  /\ caller = NoCaller
  /\ upserts = <<>>
  /\ store = <<>>
  /\ splitter = NoSplit
  /\ job = NoJob
  /\ chunker = NoChunker
  /\ merge_run = NoMergeRun
  /\ paths = NoPaths
  /\ \E status \in SessionStatus, send \in SendEndpoints,
        close \in CloseEndpoints, agents \in 0..MaxAgents :
       session = [pc |-> "open",
                  status |-> status,
                  \* deliberation_messages: who sent it, and the status the
                  \* session had when the row was inserted
                  messages |-> <<>>,
                  send |-> [endpoint |-> send, pc |-> "get_session",
                            agents |-> agents, response |-> None],
                  close |-> [endpoint |-> close, pc |-> "get_session",
                             response |-> None]]

council_frame ==
  UNCHANGED <<doc_vars, caller, upserts, store, splitter, job, chunker,
              merge_run, paths>>

\* db.create_message: the row is inserted whatever the status of the session
create_message(sess, sender_type) ==
  Append(sess.messages, [sender_type |-> sender_type, status |-> sess.status])

\* db.update_session_status: UPDATE deliberation_sessions SET status = $2
update_session_status(sess, status) == [sess EXCEPT !.status = status]

\* send_message, send_message_stream: await db.get_session, then the check
\* of the status
send_get_session ==
  /\ session.send.pc = "get_session"
  /\ session' =
       IF session.status # ACTIVE
         THEN [session EXCEPT !.send.pc = "raised", !.send.response = "400"]
         ELSE [session EXCEPT !.send.pc = "create_user_message"]
  /\ council_frame

\* await db.create_message(sender_type="user")
send_create_user_message ==
  /\ session.send.pc = "create_user_message"
  /\ session' = [session EXCEPT
                   !.messages = create_message(session, "user"),
                   !.send.pc = IF session.send.endpoint = "send_message"
                                 THEN "generate_responses"
                               ELSE IF session.send.agents > 0
                                 THEN "generate_response_stream"
                               ELSE "returned",
                   !.send.response =
                     IF session.send.endpoint = "send_message_stream"
                          /\ session.send.agents = 0
                       THEN "done" ELSE @]
  /\ council_frame

\* send_message: await orchestrator.generate_responses returns the
\* responses of the agents
generate_responses ==
  /\ session.send.pc = "generate_responses"
  /\ session' = [session EXCEPT
                   !.send.pc = IF session.send.agents > 0
                                 THEN "create_agent_message" ELSE "returned",
                   !.send.response = IF session.send.agents > 0 THEN @ ELSE "200"]
  /\ council_frame

\* send_message_stream: the response of the next agent has been streamed
generate_response_stream ==
  /\ session.send.pc = "generate_response_stream"
  /\ session' = [session EXCEPT !.send.pc = "create_agent_message"]
  /\ council_frame

\* await db.create_message(sender_type="agent") for the next response
send_create_agent_message ==
  /\ session.send.pc = "create_agent_message"
  /\ LET left == session.send.agents - 1
     IN session' = [session EXCEPT
                      !.messages = create_message(session, "agent"),
                      !.send.agents = left,
                      !.send.pc =
                        IF left = 0 THEN "returned"
                        ELSE IF session.send.endpoint = "send_message"
                          THEN "create_agent_message"
                        ELSE "generate_response_stream",
                      !.send.response =
                        IF left # 0 THEN @
                        ELSE IF session.send.endpoint = "send_message"
                          THEN "200" ELSE "done"]
  /\ council_frame

\* an await inside the try block raises: HTTP 500, or the error event of
\* the stream (whose last event is otherwise "done")
send_raises ==
  /\ session.send.pc \in {"create_user_message", "generate_responses",
                          "generate_response_stream", "create_agent_message"}
  /\ session' = [session EXCEPT
                   !.send.pc = "raised",
                   !.send.response =
                     IF session.send.endpoint = "send_message" THEN "500"
                     ELSE "error"]
  /\ council_frame

\* generate_opinion, archive_session: await db.get_session; the session
\* exists, its status is not looked at
close_get_session ==
  /\ session.close.pc = "get_session"
  /\ session' = [session EXCEPT
                   !.close.pc = IF session.close.endpoint = "generate_opinion"
                                  THEN "generate_opinion"
                                  ELSE "update_session_status"]
  /\ council_frame

\* generate_opinion: the messages are read, the opinion is generated and
\* saved
generate_opinion ==
  /\ session.close.pc = "generate_opinion"
  /\ session' = [session EXCEPT !.close.pc = "update_session_status"]
  /\ council_frame

\* await db.update_session_status(session_id, "concluded"), or
\* db.delete_session, which is update_session_status(session_id, "archived")
close_update_session_status ==
  /\ session.close.pc = "update_session_status"
  /\ session' =
       [update_session_status(
          session,
          IF session.close.endpoint = "generate_opinion" THEN CONCLUDED
          ELSE ARCHIVED)
        EXCEPT !.close.pc = "returned", !.close.response = "200"]
  /\ council_frame

CouncilNext ==
  \/ send_get_session
  \/ send_create_user_message
  \/ generate_responses
  \/ generate_response_stream
  \/ send_create_agent_message
  \/ send_raises
  \/ close_get_session
  \/ generate_opinion
  \/ close_update_session_status

CouncilSpec == CouncilInit /\ [][CouncilNext]_vars

(***************************************************************************)
(* The two entry points side by side: _process_pdf_async (main.py) and     *)
(* process_single_pdf (job.py) as functions of the outcomes of their       *)
(* collaborators, each with a table of its own.                            *)
(***************************************************************************)
CallOutcomes == {"returned", "raised"}
\* what the download, the extraction, the embeddings, the insert of the
\* extraction and the insert of the failure record do, and the settings
CollaboratorOutcomes ==
  [download : CallOutcomes, extraction : CallOutcomes,
   embedding : CallOutcomes, insert : CallOutcomes,
   failure_insert : CallOutcomes, enable_embeddings : BOOLEAN,
   storage_enabled : BOOLEAN]

\* the exception handler of both entry points: the failure record is
\* written when storage is enabled (a failure to write it is logged), the
\* error is reported
except_Exception(o, e) ==
  [status |-> "error", error |-> e.msg,
   rows |-> IF o.storage_enabled /\ o.failure_insert = "returned"
              THEN <<[status |-> FAILED, extraction_embedding |-> None]>>
              ELSE <<>>]

\* the row insert_extraction writes for the extraction
completed_row(o) ==
  [status |-> COMPLETED,
   extraction_embedding |->
     IF o.enable_embeddings /\ o.embedding = "returned" THEN "vector"
     ELSE None]

_process_pdf_async(o) ==
  IF o.download = "raised"
    THEN except_Exception(o, ValueError("Failed to download from GCS"))
  ELSE IF o.extraction = "raised"
    THEN except_Exception(o, Exception("extraction"))
  ELSE IF o.storage_enabled /\ o.insert = "returned"
    THEN [status |-> "success", error |-> None, rows |-> <<completed_row(o)>>]
  \* storage disabled, or the insert raised: caught next to the call, logged
  ELSE [status |-> "success", error |-> None, rows |-> <<>>]

process_single_pdf(o) ==
  IF o.download = "raised"
    THEN except_Exception(o, ValueError("Failed to download from GCS"))
  ELSE IF o.extraction = "raised"
    THEN except_Exception(o, Exception("extraction"))
  ELSE IF ~o.storage_enabled
    THEN [status |-> "success", error |-> None, rows |-> <<>>]
  ELSE IF o.insert = "returned"
    THEN [status |-> "success", error |-> None, rows |-> <<completed_row(o)>>]
  \* the insert raised: no handler next to the call
  ELSE except_Exception(o, Exception("database"))

NoReport == [status |-> "none"]

PathsInit ==
  /\ NoRun
  /\ caller = NoCaller
  /\ upserts = <<>>
  /\ store = <<>>
  /\ splitter = NoSplit
  /\ job = NoJob
  /\ chunker = NoChunker
  /\ merge_run = NoMergeRun
  /\ session = NoSession
  /\ \E o \in CollaboratorOutcomes :
       paths = [pc |-> "called", outcomes |-> o,
                function |-> NoReport, job |-> NoReport]

\* both entry points run to their return on the same outcomes
paths_return ==
  /\ paths.pc = "called"
  /\ paths' = [paths EXCEPT
                 !.pc = "returned",
                 !.function = _process_pdf_async(paths.outcomes),
                 !.job = process_single_pdf(paths.outcomes)]
  /\ UNCHANGED <<doc_vars, caller, upserts, store, splitter, job, chunker,
                 merge_run, session>>

PathsNext == paths_return

PathsSpec == PathsInit /\ [][PathsNext]_vars

(***************************************************************************)
(* The merge of a sequence of results: the chunk loop of                   *)
(* process_document_pdf_extraction reduced to its merges, from any         *)
(* accumulator, over two results that set the same field (or none).        *)
(***************************************************************************)
SameFieldResults ==
  {rs \in ExtractionResults \X ExtractionResults :
     /\ rs[1].fields_set = rs[2].fields_set
     /\ Cardinality(rs[1].fields_set) <= 1}

SequenceInit ==
  /\ \E current \in Accumulators, rs \in SameFieldResults :
       /\ merge_run = [current |-> current, new_results |-> rs]
       /\ current_extraction = current
  /\ prev_extraction = current_extraction
  /\ result = NoResult
  /\ pc = "merge"
  /\ settings = [extraction_model |-> "", extraction_fallback_model |-> "",
                 extraction_fallback_model_2 |-> ""]
  /\ total_chunks = 2
  /\ chunk_number = 1
  /\ successful_chunks = 0
  /\ error = NoError
  /\ messages = NoMessages
  /\ model_chain = <<>>
  /\ i = 0
  /\ attempt = 0
  /\ last_error = NoError
  /\ merged = <<>>
  /\ chunk_status = [n \in 1..MaxChunks |-> "pending"]
  /\ chunk_error = NoError
  /\ calls = <<>>
  /\ last_call = NoCall
  /\ chunks_dir = "exists"
  /\ chunk_files = 0
  /\ caller = NoCaller
  /\ upserts = <<>>
  /\ store = <<>>
  /\ splitter = NoSplit
  /\ job = NoJob
  /\ chunker = NoChunker
  /\ paths = NoPaths
  /\ session = NoSession

\* the result of the next chunk is merged into the accumulator
merge_next_result ==
  /\ pc = "merge"
  /\ chunk_number <= total_chunks
  /\ LET new_result == merge_run.new_results[chunk_number]
     IN /\ result' = new_result
        /\ prev_extraction' = current_extraction
        /\ current_extraction' =
             _deep_merge_extraction(current_extraction, new_result)
        /\ merged' = Append(merged, [chunk |-> chunk_number,
                                     result |-> new_result])
  /\ successful_chunks' = successful_chunks + 1
  /\ chunk_number' = chunk_number + 1
  /\ UNCHANGED <<pc, settings, total_chunks, error, chunk_vars, chunk_status,
                 chunk_error, calls, last_call, dir_vars, caller, upserts,
                 store, splitter, job, other_vars>>

SequenceNext == merge_next_result

SequenceSpec == SequenceInit /\ [][SequenceNext]_vars

(***************************************************************************)
(* The text chunker of the embeddings: _chunk_text (embeddings.py), one    *)
(* call on a text of up to MaxTextLen characters with a chunk_size of      *)
(* 1..MaxWindow and an overlap of 0..chunk_size - 1.  A position is the    *)
(* 0-based index of the code.                                              *)
(***************************************************************************)
Newline == "\n"
\* an ordinary character, a sentence end, a line end
Chars == {"x", ".", Newline}
Texts == UNION {[1..n -> Chars] : n \in 0..MaxTextLen}

\* text[a:b] of Python: a negative index counts from the end, an index
\* outside the text is clipped
slice_index(k, n) ==
  IF k < 0 THEN (IF k + n < 0 THEN 0 ELSE k + n)
  ELSE IF k > n THEN n ELSE k

slice(text, a, b) ==
  LET lo == slice_index(a, Len(text))
      hi == slice_index(b, Len(text))
  IN IF lo < hi THEN SubSeq(text, lo + 1, hi) ELSE <<>>

\* str.rfind(c): the highest index of c, -1 when it does not occur
rfind(chunk, c) ==
  LET at == {k \in 0..(Len(chunk) - 1) : chunk[k + 1] = c}
  IN IF at = {} THEN -1 ELSE CHOOSE k \in at : \A j \in at : j <= k

\* max(a, b) of two integers
max(a, b) == IF a >= b THEN a ELSE b

\* str.strip(): leading and trailing whitespace removed
RECURSIVE strip(_)
strip(str) ==
  IF str = <<>> THEN str
  ELSE IF Head(str) = Newline THEN strip(Tail(str))
  ELSE IF str[Len(str)] = Newline THEN strip(SubSeq(str, 1, Len(str) - 1))
  ELSE str

\* the end of the window that starts at start: start + chunk_size, moved
\* back to just after the last sentence or line end of the window when that
\* lies in the second half of it and the text goes on after the window
window_end(text, start, chunk_size) ==
  LET end == start + chunk_size
  IN IF end < Len(text)
       THEN LET chunk == slice(text, start, end)
                last_period == rfind(chunk, ".")
                last_newline == rfind(chunk, Newline)
                break_point == max(last_period, last_newline)
            IN IF 2 * break_point > chunk_size
                 THEN start + break_point + 1
                 ELSE end
       ELSE end

\* variant: the next window starts where the previous one ended
next_start_no_overlap(end, overlap) == end
\* start = end - overlap
next_start(end, overlap) == end - overlap

chunk_text_call(text, chunk_size, overlap) ==
  [pc |-> "called", text |-> text, chunk_size |-> chunk_size,
   overlap |-> overlap, start |-> 0, chunks |-> <<>>]

\* the most iterations of the loop that are followed
MaxIterations == MaxTextLen + 2

ChunkTextInit ==
  /\ NoRun
  /\ caller = NoCaller
  /\ upserts = <<>>
  /\ store = <<>>
  /\ splitter = NoSplit
  /\ job = NoJob
  /\ merge_run = NoMergeRun
  /\ paths = NoPaths
  /\ session = NoSession
  /\ \E text \in Texts, chunk_size \in 1..MaxWindow :
       \E overlap \in 0..(chunk_size - 1) :
         chunker = chunk_text_call(text, chunk_size, overlap)

\* the call begins: a text of at most chunk_size characters is returned as
\* it is, a longer one enters the loop at start = 0
chunk_text_begins ==
  /\ chunker.pc = "called"
  /\ chunker' =
       IF Len(chunker.text) <= chunker.chunk_size
         THEN [chunker EXCEPT !.pc = "returned",
                 !.chunks = <<[start |-> 0, end |-> Len(chunker.text),
                               text |-> chunker.text]>>]
         ELSE [chunker EXCEPT !.pc = "loop"]
  /\ UNCHANGED <<doc_vars, caller, upserts, store, splitter, job, merge_run,
                 paths, session>>

\* one iteration of the while loop: the window is appended, start moves,
\* and the loop ends on the break or on its condition
chunk_text_iteration ==
  /\ chunker.pc = "loop"
  /\ Len(chunker.chunks) < MaxIterations
  /\ LET text == chunker.text
         start == chunker.start
         end == window_end(text, start, chunker.chunk_size)
         new_start == next_start(end, chunker.overlap)
         window == [start |-> start, end |-> end,
                    text |-> strip(slice(text, start, end))]
     IN chunker' =
          [chunker EXCEPT
             !.chunks = Append(@, window),
             !.start = new_start,
             !.pc = IF Len(text) - new_start < chunker.overlap
                         \/ ~(new_start < Len(text))
                      THEN "returned" ELSE "loop"]
  /\ UNCHANGED <<doc_vars, caller, upserts, store, splitter, job, merge_run,
                 paths, session>>

ChunkTextNext ==
  \/ chunk_text_begins
  \/ chunk_text_iteration

ChunkTextSpec == ChunkTextInit /\ [][ChunkTextNext]_vars
(***************************************************************************)
(* Properties of the merge (checked under MergeSpec).                      *)
(***************************************************************************)
\* C1: a top-level field the result does not explicitly set (not in its
\* model_fields_set) has after the merge exactly the value, or the absence,
\* it had in the accumulator; a result that sets no field leaves the
\* accumulator unchanged.
C1_UnsetFieldsUntouched ==
  pc = "merged" =>
    /\ \A f \in Fields \ result.fields_set :
         /\ (f \in DOMAIN current_extraction) = (f \in DOMAIN prev_extraction)
         /\ f \in DOMAIN prev_extraction =>
              current_extraction[f] = prev_extraction[f]
    /\ result.fields_set = {} => current_extraction = prev_extraction

\* a merge that changed the accumulator while a field it holds was not set
C1_Witness ==
  /\ pc = "merged"
  /\ current_extraction # prev_extraction
  /\ \E f \in Fields \ result.fields_set : f \in DOMAIN prev_extraction

C9_NestedExplicitNullOverwrites ==
  pc = "merged" =>
    \A f \in result.fields_set :
      (result.data[f].k = "model" /\ Get(prev_extraction, f).k = "dict") =>
        \A s \in DOMAIN result.data[f].data :
          LET old == Get(prev_extraction[f].dv, s)
              new == Get(current_extraction[f].dv, s)
          IN /\ (s \in result.data[f].fields_set
                   /\ result.data[f].data[s] = Null /\ old # Null) => new = Null
             /\ (s \notin result.data[f].fields_set /\ old # Null) => new = old

\* C10: when the accumulator holds a list for a field and the result gives a
\* non-empty list, the merged value is exactly the new list.
C10_NonEmptyListReplaces ==
  pc = "merged" =>
    \A f \in result.fields_set :
      (Get(prev_extraction, f).k = "list" /\ result.data[f].k = "list"
         /\ result.data[f].lv # <<>>) =>
        /\ f \in DOMAIN current_extraction
        /\ current_extraction[f] = result.data[f]

\* old = [a, b], new = [b] gives [b]
C10_Witness ==
  /\ pc = "merged"
  /\ Get(prev_extraction, "legal_counsels") = List(<<"a", "b">>)
  /\ "legal_counsels" \in result.fields_set
  /\ result.data["legal_counsels"] = List(<<"b">>)
  /\ Get(current_extraction, "legal_counsels") = List(<<"b">>)
\* C11: a field whose accumulator value is a non-empty list keeps exactly
\* that list when the result explicitly sets the field to an empty list.
C11_EmptyListKeepsOld ==
  pc = "merged" =>
    \A f \in result.fields_set :
      (Get(prev_extraction, f).k = "list" /\ prev_extraction[f].lv # <<>>
         /\ result.data[f] = List(<<>>)) =>
        /\ f \in DOMAIN current_extraction
        /\ current_extraction[f] = prev_extraction[f]

\* old = [a, b], new = [] gives [a, b]
C11_Witness ==
  /\ pc = "merged"
  /\ Get(prev_extraction, "legal_counsels") = List(<<"a", "b">>)
  /\ "legal_counsels" \in result.fields_set
  /\ result.data["legal_counsels"] = List(<<>>)
  /\ Get(current_extraction, "legal_counsels") = List(<<"a", "b">>)

\* C12: a scalar field the result explicitly sets to a non-null value v
\* holds v after the merge whatever the accumulator held (nothing, or the
\* value an earlier result gave it): the later chunk's value stands.
C12_NonNullScalarOverwrites ==
  (/\ pc = "merged"
   /\ "extraction_confidence" \in result.fields_set
   /\ result.data["extraction_confidence"] # Null) =>
      /\ "extraction_confidence" \in DOMAIN current_extraction
      /\ current_extraction["extraction_confidence"] =
           result.data["extraction_confidence"]

\* the accumulator held 1 from an earlier result, the new result says 2
C12_Witness ==
  /\ pc = "merged"
  /\ Get(prev_extraction, "extraction_confidence") = Scalar(1)
  /\ "extraction_confidence" \in result.fields_set
  /\ result.data["extraction_confidence"] = Scalar(2)
  /\ current_extraction["extraction_confidence"] = Scalar(2)

C34_ExplicitNoneOverwritesStale ==
  pc = "merged" =>
    \A f \in Fields :
      /\ f \notin result.fields_set =>
           Get(current_extraction, f) = Get(prev_extraction, f)
      /\ (f \in result.fields_set /\ result.data[f] = Null) =>
           Get(current_extraction, f) = Null

C36_MergeIsIdempotent ==
  pc = "merged" =>
    _deep_merge_extraction(current_extraction, result) = current_extraction

\* a merge that changed a list, the nested object and the scalar at once
C36_Witness ==
  /\ pc = "merged"
  /\ result.fields_set = Fields
  /\ DOMAIN prev_extraction = Fields
  /\ \A f \in Fields : current_extraction[f] # prev_extraction[f]
  /\ _deep_merge_extraction(current_extraction, result) = current_extraction

(***************************************************************************)
(* Properties of the document run (checked under Spec).                    *)
(***************************************************************************)
\* the run is inside extract_from_pdf_chunk for chunk_number
InChunk == pc \in {"call", "in_flight", "sleep"}
\* the chunk loop is over
LoopOver == pc \in {"summaries", "completed"}
              \/ (pc = "failed" /\ chunk_number > total_chunks)
Finished(n) == chunk_status[n] \in {"ok", "failed"}
OkChunks == {n \in 1..MaxChunks : chunk_status[n] = "ok"}
Failures == {"JSONDecodeError", "Exception"}
\* a model the fallback loop has left behind for good
Exhausted(c) ==
  \/ c.last = "TruncationError"
  \/ c.n = 3 /\ c.last \in Failures
Truncated(reply) == ~reply.raised /\ reply.finish_reason = "length"

\* the merge, in order, of a sequence of results into the empty accumulator
RECURSIVE merge_all(_)
merge_all(ms) ==
  IF ms = <<>> THEN EmptyDict
  ELSE _deep_merge_extraction(merge_all(SubSeq(ms, 1, Len(ms) - 1)),
                              ms[Len(ms)].result)

\* C3: the chunks are processed in ascending order and one at a time: while
\* chunk N is being processed every earlier chunk has ended and no later one
\* has begun, and the accumulator embedded in chunk N's prompt is the merge,
\* in order, of the results of all earlier chunks that succeeded.
C3_ChunksInOrderWithSnapshot ==
  /\ \A n \in 1..MaxChunks :
       chunk_status[n] # "pending" => \A m \in 1..(n - 1) : Finished(m)
  /\ InChunk =>
       /\ chunk_status[chunk_number] = "processing"
       /\ \A n \in 1..MaxChunks : n > chunk_number => chunk_status[n] = "pending"
       /\ messages.chunk_number = chunk_number
       /\ {merged[x].chunk : x \in 1..Len(merged)} = OkChunks
       /\ \A x, y \in 1..Len(merged) : x < y => merged[x].chunk < merged[y].chunk
       /\ messages.current_extraction = merge_all(merged)

\* chunk 3 is called with the merge of two earlier results whose order matters
C3_Witness ==
  /\ pc = "in_flight"
  /\ chunk_number = 3
  /\ Len(merged) = 2
  /\ merge_all(merged) # merge_all(<<merged[2], merged[1]>>)
  /\ messages.current_extraction = merge_all(merged)

C5_FailedChunkDoesNotAbort ==
  /\ pc = "failed" =>
       \/ error \in SplitErrors \cup {ValueError("No chunks created")}
       \/ error = ValueError("All chunks failed") /\ chunk_number > total_chunks
       \/ error = Exception("summary") /\ chunk_number > total_chunks
  /\ \A n \in 1..MaxChunks :
       chunk_status[n] = "failed" =>
         /\ chunk_number > n
         /\ n < total_chunks =>
              \/ chunk_status[n + 1] # "pending"
              \/ pc = "chunk" /\ chunk_number = n + 1
  /\ \A n \in 1..MaxChunks :
       chunk_status[n] # "pending" => \A m \in 1..(n - 1) : Finished(m)
  /\ LoopOver => \A n \in 1..total_chunks : Finished(n)

\* chunk 2 of 3 raised after all models were exhausted, chunk 3 succeeded
C5_Witness ==
  /\ total_chunks = 3
  /\ chunk_status = <<"ok", "failed", "ok">>
  /\ pc = "completed"

\* C6: after the chunk loop the run fails with the all-chunks-failed error
\* if and only if no chunk succeeded; with at least one successful chunk it
\* goes on to the summaries.
C6_FailedIffNoChunkSucceeded ==
  /\ successful_chunks = Cardinality(OkChunks)
  /\ error = ValueError("All chunks failed") =>
       /\ pc = "failed"
       /\ chunk_number > total_chunks
       /\ successful_chunks = 0
       /\ \A n \in 1..total_chunks : chunk_status[n] = "failed"
  /\ pc \in {"summaries", "completed"} =>
       /\ successful_chunks >= 1
       /\ error = NoError
  /\ LoopOver =>
       (error = ValueError("All chunks failed")) = (successful_chunks = 0)

\* a 1-chunk document whose sole model failed all its attempts ends failed
C6_Witness ==
  /\ total_chunks = 1
  /\ Len(model_chain) = 1
  /\ calls = <<[n |-> 3, last |-> "Exception", slept |-> <<1, 2>>]>>
  /\ pc = "failed"
  /\ error = ValueError("All chunks failed")

\* C7: a truncated response (finish_reason length) is never accepted as a
\* result, its model is not called again for the chunk, no backoff is spent
\* on it, and the next call for the chunk, if any, goes to the next model.
C7_TruncationMovesToNextModel ==
  /\ (last_call # NoCall /\ Truncated(last_call.reply)) =>
       /\ chunk_status[last_call.chunk] # "ok"
       /\ (InChunk => chunk_number = last_call.chunk) =>
            calls[last_call.i + 1].last = "TruncationError"
       /\ pc # "sleep"
       /\ pc \in {"call", "in_flight"} =>
            \/ /\ chunk_number = last_call.chunk
               /\ i = last_call.i + 1
               /\ attempt = 0
            \/ /\ chunk_number > last_call.chunk
               /\ last_call.i + 1 = Len(model_chain)
  /\ InChunk =>
       \A j \in 1..Len(model_chain) :
         calls[j].last = "TruncationError" => i + 1 > j

\* a truncated response that held valid JSON; the next model is being called
C7_Witness ==
  /\ pc = "in_flight"
  /\ last_call # NoCall
  /\ Truncated(last_call.reply)
  /\ last_call.reply.content.valid
  /\ chunk_number = last_call.chunk
  /\ i = last_call.i + 1

\* C8: for one chunk each model is called at most max_attempts = 3 times; a
\* second or third call of a model directly follows a call of that model
\* that ended in a parse error or another non-truncation error; after three
\* such failures the model is left for the next model.
C8_AtMostThreeAttempts ==
  /\ \A j \in 1..Len(calls) : calls[j].n <= 3
  /\ pc \in {"call", "in_flight"} =>
       /\ attempt < 3
       /\ calls[i + 1].n = attempt
       /\ attempt > 0 =>
            /\ calls[i + 1].last \in Failures
            /\ last_call.chunk = chunk_number
            /\ last_call.i = i
            /\ last_call.attempt = attempt - 1
  /\ pc = "sleep" =>
       /\ calls[i + 1].n = attempt + 1
       /\ calls[i + 1].last \in Failures
       /\ attempt + 1 < 3
  /\ InChunk =>
       \A j \in 1..Len(model_chain) :
         (calls[j].n = 3 /\ calls[j].last \in Failures) => i + 1 > j

\* model 1 failed three times, the first call of model 2 is in flight
C8_Witness ==
  /\ pc = "in_flight"
  /\ i = 1
  /\ attempt = 0
  /\ calls[1] = [n |-> 3, last |-> "JSONDecodeError", slept |-> <<1, 2>>]

\* the run has returned or raised
RunEnded == pc \in {"completed", "failed"}
\* generate_summary_id or generate_summary_en raised
SummaryRaised == error = Exception("summary")
\* chunk 2 of a 3-chunk document failed, chunks 1 and 3 succeeded
OnlyChunkTwoFailed ==
  total_chunks = 3 /\ chunk_status = <<"ok", "failed", "ok">>

\* C15: the accumulator is empty when the run starts and is at any time the
\* merge, in order, of the results of the chunks that succeeded so far, one
\* merge per successful chunk; the success counter counts those merges; a
\* failed chunk changes neither.  For a 3-chunk document whose chunk 2
\* failed and whose chunks 1 and 3 succeeded the accumulator after the loop
\* is merge(merge(empty, result1), result3), and the run, once its
\* summaries have returned, has completed.
C15_AccumulatorChangedOnlyByMerges ==
  /\ pc = "split" => current_extraction = EmptyDict
  /\ current_extraction = merge_all(merged)
  /\ successful_chunks = Len(merged)
  /\ Len(merged) = Cardinality(OkChunks)
  /\ \A x \in 1..Len(merged) : chunk_status[merged[x].chunk] = "ok"
  /\ (OnlyChunkTwoFailed /\ LoopOver) =>
       /\ Len(merged) = 2
       /\ merged[1].chunk = 1 /\ merged[2].chunk = 3
       /\ current_extraction =
            _deep_merge_extraction(
              _deep_merge_extraction(EmptyDict, merged[1].result),
              merged[2].result)
       /\ error # ValueError("All chunks failed")
       /\ (RunEnded /\ ~SummaryRaised) => pc = "completed"

\* chunk 1 said 2, chunk 2 failed, chunk 3 said 1: the run completed with 1
C15_Witness ==
  /\ pc = "completed"
  /\ OnlyChunkTwoFailed
  /\ merged[1].result.data["extraction_confidence"] = Scalar(2)
  /\ merged[2].result.data["extraction_confidence"] = Scalar(1)
  /\ current_extraction["extraction_confidence"] = Scalar(1)
  /\ successful_chunks = 2

C18_ChunkFilesRemovedOnEveryExit ==
  /\ RunEnded => (chunks_dir = "removed" /\ chunk_files = 0)
  /\ ~RunEnded =>
       /\ chunks_dir = "exists"
       /\ pc # "split" => chunk_files = total_chunks

\* the run raised out of the summaries after three chunk files were written
C18_Witness ==
  /\ pc = "failed"
  /\ SummaryRaised
  /\ total_chunks = 3
  /\ chunks_dir = "removed"
  /\ chunk_files = 0

(***************************************************************************)
(* Claims about the model chain (Spec).                                    *)
(***************************************************************************)
\* the three settings in the order the chain is built from
Configured ==
  <<settings.extraction_model, settings.extraction_fallback_model,
    settings.extraction_fallback_model_2>>
\* the first position of a name among the three settings
FirstConfigured(model) ==
  CHOOSE k \in 1..3 :
    Configured[k] = model /\ \A j \in 1..(k - 1) : Configured[j] # model
\* the first chunk has begun: the chain has been built
ChainBuilt == chunk_status[1] # "pending"

\* C22: when every model of the chain has failed for a chunk, the error
\* the invocation raised is the error of the most recent failing attempt
\* (the last call that ended for that chunk)
C22_RaisedErrorIsLastError ==
  (/\ ~InChunk
   /\ last_call # NoCall
   /\ chunk_status[last_call.chunk] = "failed") =>
    LET out == _call_pdf_extraction_llm(last_call.reply)
    IN /\ chunk_error.type = out.raises
       /\ out.raises = "TruncationError" =>
            chunk_error = TruncationError(last_call.i)

\* C23: the chain holds the primary, the first fallback and the second
\* fallback in that order, without the unset entries and without repeats,
\* a repeated name standing where it first occurs
C23_ChainIsOrderedAndDeduplicated ==
  ChainBuilt =>
    /\ \A j \in 1..Len(model_chain) :
         /\ model_chain[j] # ""
         /\ \E k \in 1..3 : Configured[k] = model_chain[j]
    /\ \A k \in 1..3 :
         Configured[k] # "" =>
           \E j \in 1..Len(model_chain) : model_chain[j] = Configured[k]
    /\ \A j, k \in 1..Len(model_chain) :
         j < k =>
           /\ model_chain[j] # model_chain[k]
           /\ FirstConfigured(model_chain[j]) < FirstConfigured(model_chain[k])
    /\ Configured = <<"gemini-2.5-flash-lite", "gemini-2.5-flash-lite",
                      "gemini-2.5-flash">> =>
         model_chain = <<"gemini-2.5-flash-lite", "gemini-2.5-flash">>

\* a chain built from settings that repeat the primary as first fallback
C23_Witness ==
  /\ InChunk
  /\ Configured = <<"gemini-2.5-flash-lite", "gemini-2.5-flash-lite",
                    "gemini-2.5-flash">>
  /\ model_chain = <<"gemini-2.5-flash-lite", "gemini-2.5-flash">>

C20_AtMostOneRowPerKey ==
  \A x, y \in 1..Len(store) :
    (store[x].extraction_id # None
       /\ store[x].extraction_id = store[y].extraction_id) => x = y

(***************************************************************************)
(* Properties of the entry points (checked under CallerSpec).              *)
(***************************************************************************)
\* the rows of the table that an insert_extraction with these arguments
\* leaves behind when it inserts
RowsOf(args) == {id \in 1..Len(store) : store[id] = args}

\* C17: when embed_document raised after the extraction returned, in the
\* Cloud Function and in the batch job alike: with database storage enabled
\* and configured insert_extraction is called with the extraction, the
\* summaries, status completed and no embedding; the entry point reports
\* success, and reports an error only when that insert_extraction itself
\* raised (which only the batch job turns into an error).
C17_EmbeddingFailureIsNotFatal ==
  (caller.pc # "none" /\ caller.embeddings = "failed") =>
    /\ caller.extraction = "returned"
    /\ caller.pc \in {"insert", "insert_failed", "done"}
    /\ caller.pc = "insert" =>
         /\ upserts[1].args = completed_args(caller.file_name, None)
         /\ upserts[1].args.status = COMPLETED
         /\ upserts[1].args.extraction_result # None
         /\ upserts[1].args.summaries # None
    /\ (caller.storage_enabled /\ caller.pc = "done") =>
         caller.database \in {"ok", "failed"}
    /\ caller.database = "ok" =>
         \E id \in 1..Len(store) :
           /\ store[id].extraction_id = caller.decision_number
           /\ store[id].status = COMPLETED
           /\ store[id].extraction_result = "extraction"
           /\ store[id].summaries = "summaries"
    /\ caller.pc = "insert_failed" =>
         caller.database = "failed" /\ caller.entry = "process_single_pdf"
    /\ caller.pc = "done" =>
         \/ caller.report = success_report
         \/ caller.database = "failed" /\ caller.entry = "process_single_pdf"

\* the batch job, embeddings failed: the row is written without an
\* embedding, status completed, and the success is reported
C17_Witness ==
  /\ caller.pc = "done"
  /\ caller.entry = "process_single_pdf"
  /\ caller.embeddings = "failed"
  /\ caller.report = success_report
  /\ RowsOf(completed_args(caller.file_name, None)) # {}

\* C19: when the run of a document failed and the failure record was
\* written, the table holds a row with status failed, the document's key
\* (its decision number) and the error message.
C19_FailureRecordCarriesKey ==
  (/\ caller.pc = "done"
   /\ caller.report.status = "error"
   /\ caller.storage_enabled
   /\ upserts[1].pc = "returned") =>
    \E id \in 1..Len(store) :
      /\ store[id].status = FAILED
      /\ store[id].extraction_id = caller.decision_number
      /\ store[id].error_message = caller.e.msg

(***************************************************************************)
(* Claims about the UPDATE of an existing record (RecordSpec).             *)
(***************************************************************************)
\* the call c updates the row it found, in this step
Updates(c) ==
  /\ upserts[c].pc = "execute"
  /\ upserts[c].existing_id # NoId
  /\ upserts'[c].pc = "returned"

Span(chunks, k) == chunks[k].end_page - chunks[k].start_page + 1

\* C25: for a document of P >= 1 pages and a chunk_size > 0 the splitter
\* returns chunks whose page ranges start at 1, end at P, follow one
\* another without gap or overlap in ascending order, span at most
\* chunk_size pages each and exactly chunk_size pages for all but the last;
\* 25 pages by 10 give (1,10), (11,20), (21,25)
C25_ChunksCoverPagesInOrder ==
  splitter.pc = "returned" =>
    LET chunks == splitter.chunks
        P == splitter.source.total_pages
    IN /\ Len(chunks) >= 1
       /\ chunks[1].start_page = 1
       /\ chunks[Len(chunks)].end_page = P
       /\ \A k \in 1..Len(chunks) :
            /\ Span(chunks, k) >= 1
            /\ Span(chunks, k) <= splitter.chunk_size
            /\ k < Len(chunks) =>
                 /\ Span(chunks, k) = splitter.chunk_size
                 /\ chunks[k + 1].start_page = chunks[k].end_page + 1
       /\ splitter.written = Len(chunks)
       /\ (P = 25 /\ splitter.chunk_size = 10) =>
            chunks = <<[start_page |-> 1, end_page |-> 10],
                       [start_page |-> 11, end_page |-> 20],
                       [start_page |-> 21, end_page |-> 25]>>

\* 25 pages by 10 have been split into three chunks
C25_Witness ==
  /\ splitter.pc = "returned"
  /\ splitter.source.total_pages = 25
  /\ splitter.chunk_size = 10
  /\ Len(splitter.chunks) = 3
  /\ splitter.chunks[3] = [start_page |-> 21, end_page |-> 25]

\* the source of the run has no page or cannot be opened or parsed
InvalidDocument ==
  \/ splitter.source.kind \in Unreadable
  \/ splitter.source.total_pages = 0

\* C26: for a document that has no page or cannot be opened or parsed the
\* splitter raises ValueError and leaves no chunk; the run ends failed with
\* that error, no chunk has been attempted and no model call made
C26_InvalidDocumentFailsRunWithoutCall ==
  InvalidDocument =>
    /\ pc \in {"split", "failed"}
    /\ total_chunks = 0
    /\ \A n \in 1..MaxChunks : chunk_status[n] = "pending"
    /\ last_call = NoCall
    /\ calls = <<>>
    /\ pc = "failed" =>
         /\ splitter.pc = "raised"
         /\ splitter.error.type = "ValueError"
         /\ splitter.chunks = <<>>
         /\ splitter.written = 0
         /\ error = splitter.error
         /\ chunk_files = 0

\* the run of a document of no page has failed
C26_Witness ==
  /\ pc = "failed"
  /\ splitter.source = [kind |-> "pdf", total_pages |-> 0]
  /\ error = ValueError("PDF has no pages")
  /\ last_call = NoCall

\* C27: the errors the splitter raises for a missing, a permission-denied
\* and a corrupt source differ from one another and from every other error
\* of the splitter: each of the three messages, and the exception the error
\* is raised from, is raised for its source and for no other
C27_ReadFailuresAreDistinct ==
  splitter.pc = "raised" =>
    /\ splitter.source.kind = "missing" <=>
         /\ splitter.error.msg = "PDF file not found"
         /\ splitter.error.cause = "FileNotFoundError"
    /\ splitter.source.kind = "denied" <=>
         /\ splitter.error.msg = "Permission denied reading PDF file"
         /\ splitter.error.cause = "PermissionError"
    /\ splitter.source.kind = "corrupt" <=>
         /\ splitter.error.msg = "Failed to read PDF file (invalid or corrupted)"
         /\ splitter.error.cause = "PdfReadError"
    /\ splitter.source.kind \in Unreadable => splitter.error.type = "ValueError"

\* the splitter has raised for a permission-denied source
C27_Witness ==
  /\ splitter.pc = "raised"
  /\ splitter.source.kind = "denied"
  /\ splitter.error =
       raise_from(ValueError("Permission denied reading PDF file"),
                  "PermissionError")

(***************************************************************************)
(* Claims about the triggers and the bucket batch (JobSpec).               *)
(***************************************************************************)
\* C28: at every trigger (storage event, HTTP, bucket batch, single-file
\* job) an object whose name does not end in .pdf is rejected before
\* anything is done for it: the entry point is never run on such an object
C28_NonPdfIsRejectedAtEveryTrigger ==
  caller # NoCaller => is_pdf(caller.file_name)

\* the statuses of the results so far
Statuses == [k \in 1..Len(job.files) |-> job.files[k].status]

\* C29: a bucket batch runs process_single_pdf on every PDF of the listing
\* once and in order, whatever the earlier documents ended with (a failed
\* download, extraction or insert included); when it returns there is one
\* result per document and success + failed is the number of documents
C29_BatchProcessesEveryPdfOnce ==
  (job.trigger = "process_bucket" /\ job.pc # "start") =>
    /\ job.pdf_files = take(pdf_names(job.blobs), job.limit)
    /\ Len(job.files) <= Len(job.pdf_files)
    /\ \A k \in 1..Len(job.files) : job.files[k].file = job.pdf_files[k]
    /\ job.success = Cardinality({k \in 1..Len(job.files) :
                                   job.files[k].status = "success"})
    /\ job.success + job.failed = Len(job.files)
    /\ job.pc = "running" =>
         /\ caller.file_name = job.pdf_files[Len(job.files) + 1]
         /\ ENABLED JobNext
    /\ job.pc = "done" =>
         /\ Len(job.files) = Len(job.pdf_files)
         /\ job.returns = [success |-> job.success, failed |-> job.failed]

\* a batch of two PDFs and one other object has returned: the first
\* document failed, the second succeeded
C29_Witness ==
  /\ job.trigger = "process_bucket"
  /\ job.pc = "done"
  /\ job.blobs = <<"b.pdf", "c.PDF", "notes.txt">>
  /\ job.pdf_files = <<"b.pdf", "c.PDF">>
  /\ Statuses = <<"error", "success">>
  /\ job.success = 1
  /\ job.failed = 1

(***************************************************************************)
(* Claims about cancellation (CancelSpec).                                 *)
(***************************************************************************)
\* C30: a run that is cancelled stops between chunks: the cancellation
\* takes effect at the top of a loop iteration, when no model call of a
\* chunk is in flight, so every chunk that was begun has ended (merged or
\* failed) and the call that was in flight has returned
C30_CancelledBetweenChunks ==
  pc = "cancelled" =>
    /\ error.await \notin {"in_flight", "sleep"}
    /\ \A n \in 1..MaxChunks : chunk_status[n] # "processing"

(***************************************************************************)
(* Claims about the text chunker (ChunkTextSpec).                          *)
(***************************************************************************)
\* the characters of the text a window holds
Size(w) == (IF w.end < Len(chunker.text) THEN w.end ELSE Len(chunker.text))
             - w.start

\* C32: with an overlap of at most half the chunk_size (the shipped 500 of
\* 8000 is such a one), a text longer than chunk_size is split into windows
\* in ascending order, the first at position 0, each of at least one and at
\* most chunk_size characters, each later one starting exactly overlap
\* characters before the end of the one before it, the last one reaching the
\* end of the text; a text of at most chunk_size characters is returned as
\* one window that is the text itself.
C32_WindowsOverlapAndCover ==
  (chunker.pc = "returned" /\ 2 * chunker.overlap <= chunker.chunk_size) =>
    LET text == chunker.text
        chunks == chunker.chunks
        n == Len(chunks)
    IN IF Len(text) <= chunker.chunk_size
         THEN chunks = <<[start |-> 0, end |-> Len(text), text |-> text]>>
         ELSE /\ n >= 2
              /\ chunks[1].start = 0
              /\ chunks[n].end >= Len(text)
              /\ \A k \in 1..n :
                   /\ Size(chunks[k]) >= 1
                   /\ Size(chunks[k]) <= chunker.chunk_size
                   /\ Len(chunks[k].text) <= chunker.chunk_size
                   /\ chunks[k].text =
                        strip(slice(text, chunks[k].start, chunks[k].end))
                   /\ k > 1 =>
                        /\ chunks[k].start = chunks[k - 1].end - chunker.overlap
                        /\ chunks[k].start > chunks[k - 1].start
                        /\ chunks[k].start <= chunks[k - 1].end

\* seven characters in windows of four with an overlap of two: [0, 4),
\* [2, 6), [4, 8)
C32_Witness ==
  /\ chunker.pc = "returned"
  /\ Len(chunker.text) = 7
  /\ chunker.chunk_size = 4
  /\ chunker.overlap = 2
  /\ Len(chunker.chunks) = 3
  /\ chunker.chunks[2].start = 2
  /\ chunker.chunks[2].end = 6
  /\ chunker.chunks[3].start = 4

\* C38: for every text, every chunk_size > 0 and every overlap with
\* 0 <= overlap < chunk_size, the start position is strictly larger after
\* every iteration of the loop.
C38_StartStrictlyIncreases ==
  [][(chunker.pc = "loop" /\ chunker'.chunks # chunker.chunks) =>
       chunker'.start > chunker.start]_vars

(***************************************************************************)
(* Claims about the merge of a sequence of results (SequenceSpec).         *)
(***************************************************************************)
\* the value a scalar or list field has after v is merged over a: v when it
\* is a non-null scalar or a non-empty list, otherwise a
LaterWins(a, v) ==
  IF v = Null \/ (v.k = "list" /\ v.lv = <<>> /\ a # Null) THEN a ELSE v

\* two non-null scalars that differ, or two non-empty lists that differ
Conflicting(u, v) ==
  /\ u # Null
  /\ v # Null
  /\ u # v
  /\ u.k = v.k
  /\ u.k = "list" => (u.lv # <<>> /\ v.lv # <<>>)
  /\ u.k \in {"list", "scalar"}

\* C31: merging is order-dependent.  After P1 and then P2 are merged into A,
\* every scalar or list field holds the per-field rule applied left to right
\* (the value of the later result wins when it is non-null and non-empty,
\* the earlier value stays otherwise), and where P1 and P2 give conflicting
\* values for a field the result is P2's value while merging P2 and then P1
\* gives P1's: the two orders differ.
C31_MergeIsOrderDependent ==
  Len(merged) = 2 =>
    LET A == merge_run.current
        P1 == merge_run.new_results[1]
        P2 == merge_run.new_results[2]
        swapped == _deep_merge_extraction(_deep_merge_extraction(A, P2), P1)
    IN \A f \in {"legal_counsels", "extraction_confidence"} :
         /\ f \notin P1.fields_set =>
              Get(current_extraction, f) = Get(A, f)
         /\ f \in P1.fields_set =>
              /\ Get(prev_extraction, f) = LaterWins(Get(A, f), P1.data[f])
              /\ Get(current_extraction, f) =
                   LaterWins(LaterWins(Get(A, f), P1.data[f]), P2.data[f])
              /\ Conflicting(P1.data[f], P2.data[f]) =>
                   /\ current_extraction[f] = P2.data[f]
                   /\ swapped[f] = P1.data[f]
                   /\ current_extraction # swapped

\* the accumulator held 1, the first result gave 2 and the second 1: the
\* result holds 1
C31_Witness ==
  /\ Len(merged) = 2
  /\ Get(merge_run.current, "extraction_confidence") = Scalar(1)
  /\ merge_run.new_results[1].data["extraction_confidence"] = Scalar(2)
  /\ merge_run.new_results[2].data["extraction_confidence"] = Scalar(1)
  /\ current_extraction["extraction_confidence"] = Scalar(1)
  /\ prev_extraction["extraction_confidence"] = Scalar(2)

(***************************************************************************)
(* Claims about the retries of one model (Spec).                           *)
(***************************************************************************)
\* C33: the waits between the attempts on one model are 1 second after the
\* first failed attempt and 2 seconds after the second; there is no wait
\* after the third failed attempt, none after a truncation and none after a
\* success; the run waits only after a failed attempt that is not the last.
C33_BackoffDoublesAndStopsBeforeNextModel ==
  /\ \A j \in 1..Len(calls) :
       LET c == calls[j]
           waits == IF c.last \in Failures
                      THEN (IF c.n < 3 THEN c.n ELSE 2)
                      ELSE (IF c.n > 0 THEN c.n - 1 ELSE 0)
       IN c.slept = SubSeq(<<1, 2>>, 1, waits)
  /\ pc = "sleep" =>
       /\ calls[i + 1].last \in Failures
       /\ calls[i + 1].n = attempt + 1
       /\ attempt \in {0, 1}
       /\ calls[i + 1].slept[attempt + 1] = (IF attempt = 0 THEN 1 ELSE 2)

\* the first model failed three times and the run is at the second model:
\* it waited 1 and 2 seconds and not a third time
C33_Witness ==
  /\ Len(model_chain) >= 2
  /\ i = 1
  /\ pc = "call"
  /\ attempt = 0
  /\ calls[1].n = 3
  /\ calls[1].last \in Failures
  /\ calls[1].slept = <<1, 2>>

(***************************************************************************)
(* Claims about the number of model calls of one chunk (Spec).             *)
(***************************************************************************)
\* the calls that have ended for the chunk begun last
RECURSIVE CallsUpTo(_)
CallsUpTo(j) == IF j = 0 THEN 0 ELSE calls[j].n + CallsUpTo(j - 1)
TotalCalls == CallsUpTo(Len(calls))
\* the distinct names among the configured models
DistinctConfigured == {Configured[k] : k \in 1..3} \ {""}
\* the chunk begun last has returned its result or raised
ChunkEnded == ChainBuilt /\ ~InChunk
\* the calls the chunk can still make
CallsLeft == 3 * (Len(model_chain) - i) - attempt - (IF pc = "call" THEN 0 ELSE 1)

C39_BothPathsReportAlike ==
  paths.pc = "returned" =>
    /\ paths.function.status = paths.job.status
    /\ paths.function.rows = paths.job.rows

(***************************************************************************)
(* Claims about the council API (CouncilSpec).                             *)
(***************************************************************************)
\* C40: every message of the session was stored while the session was
\* active: no user or agent message is stored after the status has become
\* concluded or archived, whatever the interleaving of the request that
\* sends the message with the one that closes the session.
C40_MessagesOnlyWhileActive ==
  \A k \in 1..Len(session.messages) : session.messages[k].status = ACTIVE
====
